---- MODULE Spec2Model ----
(***************************************************************************)
(* Verification model of parts of the noodles bioinformatics I/O library:  *)
(*   - the indexed region query (noodles-bcf io/reader/query.rs,           *)
(*     noodles-gff reader.rs) over a csi-indexed record stream;            *)
(*   - the BAM lazy data field value decoder                               *)
(*     (noodles-bam lazy/record/data/field/value.rs).                      *)
(***************************************************************************)
EXTENDS Integers, Sequences, FiniteSets, TLC

VARIABLES
    dataset,    \* the records of the indexed file, in file order
    index,      \* the csi index of the file: header, reference sequences -> bins -> chunks
    query,      \* the iterator built by a query (Query struct / the GFF iterator)
    reader,     \* csi::io::Query state, with the position of the underlying bgzf reader
    out,        \* what the calls to next have returned so far, None included
    src,        \* decode_value: the byte cursor
    ty,         \* decode_value: the requested type
    input,      \* decode_value: the bytes the cursor held before the call
    result,     \* decode_value: the io::Result returned
    value,      \* the typed value given to the encoder
    header,     \* write_filters: the string dictionary of the header (strings of the string maps)
    writer,     \* write_filters: the bytes written so far
    call,       \* write_filters: the filters, the writer before and the result of the last call
    vo,         \* virtual offsets: two (block, within) pairs, their 64-bit values, and what comparing and decomposing them gave
    stream,     \* GFF reader: the characters left in the underlying stream
    buf,        \* GFF read_line: the line buffer of the caller
    nread,      \* GFF read_line: the number of bytes the last call returned, -1 before the first call
    data,       \* GFF records: the lines of the file given to the reader
    yielded,    \* GFF records: what the calls to next have returned so far
    ended,      \* GFF records: whether the iterator has stopped
    iter,       \* Filters::try_from_iter: the strings given
    made,       \* Filters::try_from_iter: the Result returned
    arg,        \* SAM Value::from: the type and the value of the integer given
    converted,  \* SAM Value::from: the Value made
    array,      \* SAM array value: the Value given to to_string
    text,       \* SAM array value: the text to_string gave, then given to from_str_type
    parsed,     \* SAM array value: the Result of from_str_type
    cigar,      \* CRAM from_cigar: the CIGAR operations of the record
    sequence,   \* CRAM from_cigar: the bases of the record
    quality_scores,\* CRAM from_cigar: the quality scores of the record
    features,   \* CRAM from_cigar: the features returned, or the panic
    hsrc,       \* the rest of the @HD record that parse_header reads
    ctx,        \* the context of the header parser
    hmap,       \* what parse_header returned
    hbytes,     \* the bytes of the @HD record after the record type
    vstream,    \* the chunks fill_buf hands out, from the start of the line
    vreader,    \* the chunks the reader has not consumed yet
    vrecord,    \* the fields of the VCF record: buf and bounds
    vresult     \* what read_record returned

qvars == <<dataset, index, query, reader, out>>
dvars == <<src, ty, input, result>>
cvars == <<value>>
fvars == <<header, writer, call>>
ovars == <<vo>>
lvars == <<stream, buf, nread>>
rvars == <<data, yielded, ended>>
tvars == <<iter, made>>
svars == <<arg, converted>>
avars == <<array, text, parsed>>
evars == <<cigar, sequence, quality_scores, features>>
hvars == <<hbytes, hsrc, ctx, hmap>>
vvars == <<vstream, vreader, vrecord, vresult>>
vars == <<qvars, dvars, cvars, fvars, ovars, lvars, rvars, tvars, svars, avars, evars, hvars, vvars>>

\* What the steps of the query leave alone, and what the steps of the decoder do.
notq == <<dvars, cvars, fvars, ovars, lvars, rvars, tvars, svars, avars, evars, hvars, vvars>>
notd == <<qvars, cvars, fvars, ovars, lvars, rvars, tvars, svars, avars, evars, hvars, vvars>>
notf == <<qvars, dvars, cvars, ovars, lvars, rvars, tvars, svars, avars, evars, hvars, vvars>>
noto == <<qvars, dvars, cvars, fvars, lvars, rvars, tvars, svars, avars, evars, hvars, vvars>>
notl == <<qvars, dvars, cvars, fvars, ovars, rvars, tvars, svars, avars, evars, hvars, vvars>>
nott == <<qvars, dvars, cvars, fvars, ovars, lvars, rvars, svars, avars, evars, hvars, vvars>>
nots == <<qvars, dvars, cvars, fvars, ovars, lvars, rvars, tvars, avars, evars, hvars, vvars>>
nota == <<qvars, dvars, cvars, fvars, ovars, lvars, rvars, tvars, svars, evars, hvars, vvars>>
note == <<qvars, dvars, cvars, fvars, ovars, lvars, rvars, tvars, svars, avars, hvars, vvars>>
noth == <<qvars, dvars, cvars, fvars, ovars, lvars, rvars, tvars, svars, avars, evars, vvars>>
notv == <<qvars, dvars, cvars, fvars, ovars, lvars, rvars, tvars, svars, avars, evars, hvars>>

\* from_cigar has not been called.
NoContext == [allow_duplicate_tags |-> FALSE]
NoMap == [state |-> "None", error |-> "None", version |-> <<>>, other_fields |-> <<>>]
DefaultRecord == [buf |-> <<"s", "q", "0", "1", ".", "A", ".", ".", ".", ".">>,
                  bounds |-> <<3, 4, 5, 6, 7, 8, 9, 10>>]
NotCalled == [state |-> "None", len |-> 0, kind |-> "None", message |-> "None"]
NoFeatures == [state |-> "None", features |-> <<>>]

\* No SAM array value has been written or parsed.
NoArray == [subtype |-> "None", values |-> <<>>]
NoText == <<"?">>
NotParsed == [ok |-> FALSE, kind |-> "None", val |-> <<>>]

\* No integer has been converted to a SAM data field value.
NoArg == [ty |-> "None", n |-> <<>>]
NoConverted == [kind |-> "None", val |-> <<>>]

\* try_from_iter has not been called.
NotMade == [ok |-> FALSE, kind |-> "None", val |-> <<>>]

\* read_line has not been called.
NotRead == -1

\* No virtual offset is at hand.
NoOffsets == [a |-> <<>>, b |-> <<>>, va |-> <<>>, vb |-> <<>>, less |-> "None",
              da |-> <<>>, db |-> <<>>]

\* write_filters has not been called.
NoCall == [filters |-> <<>>, before |-> <<>>, result |-> "None"]

\* No typed value has been given to the encoder.
NoValue == [kind |-> "None", val |-> 0]

----
\* Bounds of the model.

MaxRecords == 2     \* records in the dataset
MaxPos == 2         \* largest reference position
MaxSlack == 1       \* by how many records an index chunk may extend past its record's end

----
\* Helpers.

Max(a, b) == IF a >= b THEN a ELSE b
Min(a, b) == IF a <= b THEN a ELSE b
Range(s) == {s[i] : i \in 1..Len(s)}

----
\* The indexed dataset.

\* The reference sequence names of the index header / the contigs of the header.
ContigNames == <<"sq0", "sq1">>
NumContigs == Len(ContigNames)
RegionNames == Range(ContigNames) \cup {"sq2"}

\* header.reference_sequence_names().get_index_of(name): the 0-based position
\* of the name, NumContigs standing for None.
get_index_of(names, name) ==
    IF \E i \in 1..Len(names) : names[i] = name
    THEN (CHOOSE i \in 1..Len(names) : names[i] = name) - 1
    ELSE Len(names)

\* A record as the query sees it: its reference sequence id, its 1-based
\* start (0: the record has no start position), its inclusive end, and
\* whether decoding its end / parsing its remaining fields fails.
Records ==
    {r \in [chrom : 0..(NumContigs - 1), start : 0..MaxPos, end : 0..MaxPos, fault : BOOLEAN] :
        IF r.start = 0 THEN r.end = 0 ELSE r.start <= r.end}

\* A query interval: 1-based, both ends included.
Intervals == {iv \in [start : 1..MaxPos, end : 1..MaxPos] : iv.start <= iv.end}

\* Indexed files are coordinate sorted.
CoordinateSorted(d) ==
    \A i \in 1..(Len(d) - 1) :
        \/ d[i].chrom < d[i + 1].chrom
        \/ d[i].chrom = d[i + 1].chrom /\ d[i].start <= d[i + 1].start

Datasets ==
    {d \in UNION {[1..n -> Records] : n \in 0..MaxRecords} : CoordinateSorted(d)}

\* The bin of a record in a two-level binning scheme: bin 0 spans every
\* position, bin p (1..MaxPos) spans the single position p.
reg2bin(r) == IF r.start # 0 /\ r.start = r.end THEN r.start ELSE 0

\* The candidate bins of an interval: every bin whose span overlaps it.
reg2bins(iv) == {0} \cup (iv.start)..(iv.end)

\* The chunk the index holds for the record at file position i: the byte
\* range of the record, which the following slack records widen.
chunk_of(d, i, slack) ==
    [start |-> i - 1, end |-> Min(Len(d), i + slack)]

RECURSIVE bin_chunks(_, _, _, _, _)
bin_chunks(d, slack, ref, bin, i) ==
    IF i > Len(d) THEN <<>>
    ELSE IF d[i].chrom = ref /\ reg2bin(d[i]) = bin
         THEN <<chunk_of(d, i, slack)>> \o bin_chunks(d, slack, ref, bin, i + 1)
         ELSE bin_chunks(d, slack, ref, bin, i + 1)

\* The index of a dataset.
build_index(d, slack, has_header) ==
    [header |-> [some |-> has_header, reference_sequence_names |-> ContigNames],
     reference_sequences |->
        [ref \in 0..(NumContigs - 1) |->
            [bin \in 0..MaxPos |-> bin_chunks(d, slack, ref, bin, 1)]]]

\* Chunks in the order of their start (then end) offsets.
RECURSIVE sort_chunks(_)
sort_chunks(S) ==
    IF S = {} THEN <<>>
    ELSE LET c == CHOOSE x \in S :
                    \A y \in S : x.start < y.start \/ (x.start = y.start /\ x.end <= y.end)
         IN <<c>> \o sort_chunks(S \ {c})

\* Coalesces the overlapping and adjacent chunks of a sorted list.
RECURSIVE merge_chunks(_, _)
merge_chunks(acc, rest) ==
    IF rest = <<>> THEN acc
    ELSE LET c == Head(rest) IN
         IF acc # <<>> /\ c.start <= acc[Len(acc)].end
         THEN merge_chunks([acc EXCEPT ![Len(acc)].end = Max(@, c.end)], Tail(rest))
         ELSE merge_chunks(Append(acc, c), Tail(rest))

\* The chunks of the candidate bins of (reference sequence, interval), as
\* the index holds them.
candidate_chunks(idx, reference_sequence_id, iv) ==
    UNION {Range(idx.reference_sequences[reference_sequence_id][bin]) : bin \in reg2bins(iv)}

\* index.query without the coalescing of the chunks.
index_query_unmerged(idx, reference_sequence_id, iv) ==
    sort_chunks(candidate_chunks(idx, reference_sequence_id, iv))

\* index.query
index_query(idx, reference_sequence_id, iv) ==
    merge_chunks(<<>>, sort_chunks(candidate_chunks(idx, reference_sequence_id, iv)))

----
\* csi::io::Query: reads the underlying reader chunk by chunk.

NoReader == [state |-> "None", chunks |-> <<>>, chunk_end |-> 0, pos |-> 0, ops |-> 0]

\* csi::io::Query::new
csi_query_new(rd, chunks) == [rd EXCEPT !.state = "Seek", !.chunks = chunks]

\* read_record over csi::io::Query: n = 0 at the end of the chunks, else the
\* record at the reader's position is read and the position moves past it.
\* ops counts the seeks and reads made on the underlying reader.
RECURSIVE read_record(_, _)
read_record(d, rd) ==
    CASE rd.state = "Seek" ->
            IF rd.chunks = <<>>
            THEN read_record(d, [rd EXCEPT !.state = "Done"])
            ELSE read_record(d, [rd EXCEPT !.state = "Read",
                                           !.chunk_end = Head(rd.chunks).end,
                                           !.pos = Head(rd.chunks).start,
                                           !.chunks = Tail(rd.chunks),
                                           !.ops = @ + 1])
      [] rd.state = "Read" ->
            IF rd.pos < rd.chunk_end
            THEN IF rd.pos < Len(d)
                 THEN [n |-> 1, idx |-> rd.pos + 1,
                       rd |-> [rd EXCEPT !.pos = @ + 1, !.ops = @ + 1]]
                 ELSE [n |-> 0, idx |-> 0, rd |-> [rd EXCEPT !.ops = @ + 1]]
            ELSE read_record(d, [rd EXCEPT !.state = "Seek"])
      [] OTHER -> [n |-> 0, idx |-> 0, rd |-> rd]

----
\* noodles-bcf io/reader/query.rs

NoQuery == [kind |-> "none", chromosome_id |-> 0, name |-> "", interval |-> [start |-> 1, end |-> 1],
            chunks |-> <<>>, record |-> 0, result |-> "none"]

\* Interval::intersects: the two intervals share a position.
interval_intersects(a, b) == a \cap b # {}

\* intersects without the comparison of the reference sequence ids.
intersects_any_chromosome(record, chromosome_id, region_interval) ==
    IF record.start = 0 THEN [ok |-> TRUE, val |-> FALSE]
    ELSE IF record.fault THEN [ok |-> FALSE, val |-> FALSE]
    ELSE [ok |-> TRUE,
          val |-> interval_intersects((record.start)..(record.end),
                                      (region_interval.start)..(region_interval.end))]

\* intersects with the record's interval built from start..end, end excluded.
intersects_half_open(record, chromosome_id, region_interval) ==
    IF record.start = 0 THEN [ok |-> TRUE, val |-> FALSE]
    ELSE IF record.fault THEN [ok |-> FALSE, val |-> FALSE]
    ELSE [ok |-> TRUE,
          val |-> record.chrom = chromosome_id
                  /\ interval_intersects((record.start)..(record.end - 1),
                                         (region_interval.start)..(region_interval.end))]

\* intersects: the record's chromosome resolves in the contigs of the header
\* (its id); Ok(false) for a record without start, else the end is decoded,
\* which can fail, and the closed interval start..=end is compared.
intersects(record, chromosome_id, region_interval) ==
    LET id == record.chrom IN
    IF record.start = 0 THEN [ok |-> TRUE, val |-> FALSE]
    ELSE IF record.fault THEN [ok |-> FALSE, val |-> FALSE]
    ELSE LET record_interval == (record.start)..(record.end) IN
         [ok |-> TRUE,
          val |-> id = chromosome_id
                  /\ interval_intersects(record_interval,
                                         (region_interval.start)..(region_interval.end))]

\* next_record with the arms of its match swapped: the buffered record at
\* the end of the input, None after a record was read.
next_record_swapped(d, q, rd) ==
    LET r == read_record(d, rd)
        rec == IF r.n = 0 THEN q.record ELSE r.idx
    IN [opt |-> IF r.n = 0 THEN rec ELSE 0,
        q |-> [q EXCEPT !.record = rec],
        rd |-> r.rd]

\* Query::next_record: the record read (as its file position, 0 for None),
\* which is a clone of self.record.
next_record(d, q, rd) ==
    LET r == read_record(d, rd)
        rec == IF r.n = 0 THEN q.record ELSE r.idx
    IN [opt |-> IF r.n = 0 THEN 0 ELSE rec,
        q |-> [q EXCEPT !.record = rec],
        rd |-> r.rd]

\* Query::next reporting the end of the input as an error.
RECURSIVE query_next_eof_err(_, _, _, _)
query_next_eof_err(d, q, rd, fuel) ==
    LET r == next_record(d, q, rd) IN
    IF fuel = 0 THEN [item |-> [t |-> "Diverged", idx |-> 0], q |-> q, rd |-> rd]
    ELSE IF r.opt = 0 THEN [item |-> [t |-> "Err", idx |-> 0], q |-> r.q, rd |-> r.rd]
    ELSE LET i == intersects(d[r.opt], q.chromosome_id, q.interval) IN
         IF ~i.ok THEN [item |-> [t |-> "Err", idx |-> r.opt], q |-> r.q, rd |-> r.rd]
         ELSE IF i.val THEN [item |-> [t |-> "Ok", idx |-> r.opt], q |-> r.q, rd |-> r.rd]
         ELSE query_next_eof_err(d, r.q, r.rd, fuel - 1)

\* Query::next: the loop runs until a record intersects, an error occurs or
\* the reader is at its end. fuel bounds the iterations of the loop.
RECURSIVE query_next(_, _, _, _)
query_next(d, q, rd, fuel) ==
    LET r == next_record(d, q, rd) IN
    IF fuel = 0 THEN [item |-> [t |-> "Diverged", idx |-> 0], q |-> q, rd |-> rd]
    ELSE IF r.opt = 0 THEN [item |-> [t |-> "None", idx |-> 0], q |-> r.q, rd |-> r.rd]
    ELSE LET i == intersects(d[r.opt], q.chromosome_id, q.interval) IN
         IF ~i.ok THEN [item |-> [t |-> "Err", idx |-> r.opt], q |-> r.q, rd |-> r.rd]
         ELSE IF i.val THEN [item |-> [t |-> "Ok", idx |-> r.opt], q |-> r.q, rd |-> r.rd]
         ELSE query_next(d, r.q, r.rd, fuel - 1)

\* Query::new
query_new(rd, chunks, chromosome_id, interval) ==
    [q |-> [NoQuery EXCEPT !.kind = "bcf", !.chromosome_id = chromosome_id,
                           !.interval = interval, !.chunks = chunks, !.result = "Ok"],
     rd |-> csi_query_new(rd, chunks)]

----
\* noodles-gff reader.rs, Reader::query

\* filter_by_region over the indexed records: the next record on the region's
\* reference sequence whose interval intersects the region's.
RECURSIVE filter_by_region(_, _, _, _)
filter_by_region(d, q, rd, fuel) ==
    LET r == read_record(d, rd) IN
    IF fuel = 0 THEN [item |-> [t |-> "Diverged", idx |-> 0], q |-> q, rd |-> rd]
    ELSE IF r.n = 0 THEN [item |-> [t |-> "None", idx |-> 0], q |-> q, rd |-> r.rd]
    ELSE IF /\ ContigNames[d[r.idx].chrom + 1] = q.name
            /\ d[r.idx].start # 0
            /\ interval_intersects((d[r.idx].start)..(d[r.idx].end),
                                   (q.interval.start)..(q.interval.end))
         THEN [item |-> [t |-> "Ok", idx |-> r.idx], q |-> q, rd |-> r.rd]
         ELSE filter_by_region(d, q, r.rd, fuel - 1)

\* The closure mapped over the filtered records: the line is parsed as a
\* record, a parse error becoming an InvalidData error.
parse_record(d, item) ==
    IF item.t = "Ok" /\ d[item.idx].fault THEN [item EXCEPT !.t = "Err"] ELSE item

\* next of the iterator Reader::query returns
gff_next(d, q, rd, fuel) ==
    LET f == filter_by_region(d, q, rd, fuel) IN [f EXCEPT !.item = parse_record(d, f.item)]

\* Reader::query falling back to the first reference sequence when the
\* region's name is not in the index header.
gff_query_default(idx, rd, name, interval) ==
    IF ~idx.header.some
    THEN [q |-> [NoQuery EXCEPT !.kind = "err", !.name = name, !.interval = interval,
                                !.result = "InvalidInput"],
          rd |-> rd]
    ELSE LET i == get_index_of(idx.header.reference_sequence_names, name)
             reference_sequence_id ==
                IF i = Len(idx.header.reference_sequence_names) THEN 0 ELSE i
             chunks == index_query(idx, reference_sequence_id, interval)
         IN [q |-> [NoQuery EXCEPT !.kind = "gff", !.name = name,
                                   !.chromosome_id = reference_sequence_id,
                                   !.interval = interval, !.chunks = chunks, !.result = "Ok"],
             rd |-> csi_query_new(rd, chunks)]

\* Reader::query
gff_query(idx, rd, name, interval) ==
    IF ~idx.header.some
    THEN [q |-> [NoQuery EXCEPT !.kind = "err", !.name = name, !.interval = interval,
                                !.result = "InvalidInput"],
          rd |-> rd]
    ELSE LET reference_sequence_id == get_index_of(idx.header.reference_sequence_names, name) IN
         IF reference_sequence_id = Len(idx.header.reference_sequence_names)
         THEN [q |-> [NoQuery EXCEPT !.kind = "err", !.name = name, !.interval = interval,
                                     !.result = "InvalidInput"],
               rd |-> rd]
         ELSE LET chunks == index_query(idx, reference_sequence_id, interval) IN
              [q |-> [NoQuery EXCEPT !.kind = "gff", !.name = name,
                                     !.chromosome_id = reference_sequence_id,
                                     !.interval = interval, !.chunks = chunks, !.result = "Ok"],
               rd |-> csi_query_new(rd, chunks)]

----
\* The query state machine.

\* The number of calls to next a behaviour makes: enough to exhaust any
\* iterator and call it again.
MaxCalls == MaxRecords + 2

LoopFuel(d, rd) == Len(d) + 2 * Len(rd.chunks) + 4

NoResult == [ok |-> FALSE, kind |-> "None", val |-> 0]

InitQuery ==
    /\ dataset \in Datasets
    /\ \E slack \in 0..MaxSlack, has_header \in BOOLEAN :
            index = build_index(dataset, slack, has_header)
    /\ query = NoQuery
    /\ reader = NoReader
    /\ out = <<>>
    /\ src = <<>>
    /\ ty = "None"
    /\ input = <<>>
    /\ result = NoResult
    /\ value = NoValue
    /\ header = <<>>
    /\ writer = <<>>
    /\ call = NoCall
    /\ vo = NoOffsets
    /\ stream = <<>>
    /\ buf = <<>>
    /\ nread = NotRead
    /\ data = <<>>
    /\ yielded = <<>>
    /\ ended = FALSE
    /\ iter = <<>>
    /\ made = NotMade
    /\ arg = NoArg
    /\ converted = NoConverted
    /\ array = NoArray
    /\ text = NoText
    /\ parsed = NotParsed
    /\ cigar = <<>>
    /\ sequence = <<>>
    /\ quality_scores = <<>>
    /\ features = NoFeatures
    /\ hsrc = <<>>
    /\ ctx = NoContext
    /\ hmap = NoMap
    /\ hbytes = <<>>
    /\ vstream = <<>>
    /\ vreader = <<>>
    /\ vrecord = DefaultRecord
    /\ vresult = NotCalled

\* bcf Reader::query builds the Query from the chunks of the index.
QueryNew ==
    /\ query.kind = "none"
    /\ \E chromosome_id \in 0..(NumContigs - 1), interval \in Intervals :
            LET n == query_new(reader, index_query(index, chromosome_id, interval),
                               chromosome_id, interval)
            IN query' = n.q /\ reader' = n.rd
    /\ UNCHANGED <<dataset, index, out, notq>>

QueryNext ==
    /\ query.kind = "bcf"
    /\ Len(out) < MaxCalls
    /\ LET r == query_next(dataset, query, reader, LoopFuel(dataset, reader)) IN
            /\ out' = Append(out, r.item)
            /\ query' = r.q
            /\ reader' = r.rd
    /\ UNCHANGED <<dataset, index, notq>>

GffQuery ==
    /\ query.kind = "none"
    /\ \E name \in RegionNames, interval \in Intervals :
            LET n == gff_query(index, reader, name, interval)
            IN query' = n.q /\ reader' = n.rd
    /\ UNCHANGED <<dataset, index, out, notq>>

GffNext ==
    /\ query.kind = "gff"
    /\ Len(out) < MaxCalls
    /\ LET r == gff_next(dataset, query, reader, LoopFuel(dataset, reader)) IN
            /\ out' = Append(out, r.item)
            /\ query' = r.q
            /\ reader' = r.rd
    /\ UNCHANGED <<dataset, index, notq>>

NextQuery == QueryNew \/ QueryNext \/ GffQuery \/ GffNext

SpecQuery == InitQuery /\ [][NextQuery]_vars

----
\* noodles-bam lazy/record/data/field/value.rs

MaxLen == 5         \* bytes in the cursor given to decode_value

\* The byte values the inputs are made of: NUL, the bounds of the signed and
\* unsigned ranges, and b'C' (the UInt8 array subtype).
Bytes == {0, 1, 67, 128, 255}
Inputs == UNION {[1..n -> Bytes] : n \in 0..MaxLen}

Types == {"Character", "Int8", "UInt8", "Int16", "UInt16", "Int32", "UInt32",
          "Float", "String", "Hex", "Array"}

\* io::Result<Value> with the cursor left behind.
Ok(kind, val, rest) == [ok |-> TRUE, kind |-> kind, val |-> val, rest |-> rest]
Err(kind, rest) == [ok |-> FALSE, kind |-> kind, val |-> 0, rest |-> rest]

\* Read::read_exact on a byte slice: the first n bytes, the slice advanced.
read_exact(s, n) ==
    IF Len(s) < n
    THEN [ok |-> FALSE, buf |-> <<>>, rest |-> s]
    ELSE [ok |-> TRUE, buf |-> SubSeq(s, 1, n), rest |-> SubSeq(s, n + 1, Len(s))]

\* The two's complement reading of an unsigned value of the given width.
to_signed(n, bits) == IF n >= 2 ^ (bits - 1) THEN n - 2 ^ bits ELSE n

\* ReadBytesExt::read_u8, read_i8, and read_u16, read_i16 in little endian.
read_u8(s) ==
    LET r == read_exact(s, 1) IN
    IF r.ok THEN [ok |-> TRUE, val |-> r.buf[1], rest |-> r.rest]
    ELSE [ok |-> FALSE, val |-> 0, rest |-> s]

read_i8(s) ==
    LET r == read_u8(s) IN IF r.ok THEN [r EXCEPT !.val = to_signed(@, 8)] ELSE r

read_u16(s) ==
    LET r == read_exact(s, 2) IN
    IF r.ok THEN [ok |-> TRUE, val |-> r.buf[1] + 256 * r.buf[2], rest |-> r.rest]
    ELSE [ok |-> FALSE, val |-> 0, rest |-> s]

read_i16(s) ==
    LET r == read_u16(s) IN IF r.ok THEN [r EXCEPT !.val = to_signed(@, 16)] ELSE r

\* read_u32 in little endian. A u32 is held as its two 16-bit halves, hi and
\* lo, its value being hi * 2^16 + lo.
read_u32(s) ==
    LET r == read_exact(s, 4) IN
    IF r.ok
    THEN [ok |-> TRUE,
          val |-> [hi |-> r.buf[3] + 256 * r.buf[4], lo |-> r.buf[1] + 256 * r.buf[2]],
          rest |-> r.rest]
    ELSE [ok |-> FALSE, val |-> 0, rest |-> s]

\* read_i32 in little endian: the value fits the integers of the model.
read_i32(s) ==
    LET r == read_u32(s) IN
    IF r.ok THEN [r EXCEPT !.val = to_signed(r.val.hi, 16) * 65536 + r.val.lo] ELSE r

\* read_f32 in little endian: the float is held as its IEEE-754 bit pattern.
read_f32(s) == read_u32(s)

\* .map(Value::X) on the result of a read.
map_value(r, kind) ==
    IF r.ok THEN Ok(kind, r.val, r.rest) ELSE Err("UnexpectedEof", r.rest)

decode_character(s) == map_value(read_u8(s), "Character")

\* decode_i16 reading the bytes as unsigned.
decode_i16_unsigned(s) == map_value(read_u16(s), "Int16")

decode_i16(s) == map_value(read_i16(s), "Int16")

\* decode_i8 reading the byte as unsigned.
decode_i8_unsigned(s) == map_value(read_u8(s), "Int8")

decode_i8(s) == map_value(read_i8(s), "Int8")
decode_u8(s) == map_value(read_u8(s), "UInt8")
decode_u16(s) == map_value(read_u16(s), "UInt16")
decode_i32(s) == map_value(read_i32(s), "Int32")
decode_u32(s) == map_value(read_u32(s), "UInt32")
decode_f32(s) == map_value(read_f32(s), "Float")

NUL == 0

\* src.iter().position(|&b| b == NUL): the 0-based position of the first
\* NUL, Len(s) standing for None.
position_nul(s) ==
    IF \E i \in 1..Len(s) : s[i] = NUL
    THEN (CHOOSE i \in 1..Len(s) : s[i] = NUL /\ \A j \in 1..(i - 1) : s[j] # NUL) - 1
    ELSE Len(s)

\* decode_string consuming the string without its terminator.
decode_string_keeps_nul(s) ==
    LET len == position_nul(s) IN
    IF len = Len(s) THEN [ok |-> FALSE, val |-> <<>>, rest |-> s]
    ELSE [ok |-> TRUE, val |-> SubSeq(s, 1, len), rest |-> SubSeq(s, len + 1, Len(s))]

\* decode_string taking the whole input when there is no terminator.
decode_string_lenient(s) ==
    LET len == position_nul(s) IN
    [ok |-> TRUE, val |-> SubSeq(s, 1, len), rest |-> SubSeq(s, len + 2, Len(s))]

decode_string(s) ==
    LET len == position_nul(s) IN
    IF len = Len(s) THEN [ok |-> FALSE, val |-> <<>>, rest |-> s]
    ELSE [ok |-> TRUE, val |-> SubSeq(s, 1, len), rest |-> SubSeq(s, len + 2, Len(s))]

\* .map(Value::String) and .map(Value::Hex) on the result of decode_string.
map_string(r, kind) ==
    IF r.ok THEN Ok(kind, r.val, r.rest) ELSE Err("InvalidData", r.rest)

decode_hex(s) == map_string(decode_string(s), "Hex")

\* The array subtypes: the tag byte, the variant and the width of an element.
Subtypes ==
    {[tag |-> 99, kind |-> "Int8", width |-> 1], [tag |-> 67, kind |-> "UInt8", width |-> 1],
     [tag |-> 115, kind |-> "Int16", width |-> 2], [tag |-> 83, kind |-> "UInt16", width |-> 2],
     [tag |-> 105, kind |-> "Int32", width |-> 4], [tag |-> 73, kind |-> "UInt32", width |-> 4],
     [tag |-> 102, kind |-> "Float", width |-> 4]}

\* One element of an array.
read_element(s, kind) ==
    CASE kind = "Int8" -> read_i8(s)
      [] kind = "UInt8" -> read_u8(s)
      [] kind = "Int16" -> read_i16(s)
      [] kind = "UInt16" -> read_u16(s)
      [] kind = "Int32" -> read_i32(s)
      [] kind = "UInt32" -> read_u32(s)
      [] OTHER -> read_f32(s)

RECURSIVE read_elements(_, _, _)
read_elements(s, kind, n) ==
    IF n = 0 THEN [val |-> <<>>, rest |-> s]
    ELSE LET e == read_element(s, kind)
             t == read_elements(e.rest, kind, n - 1)
         IN [val |-> <<e.val>> \o t.val, rest |-> t.rest]

\* decode_array: the subtype tag, the count as a little endian u32, then
\* count elements of the width of the subtype.
decode_array(s) ==
    LET tag == read_u8(s) IN
    IF ~tag.ok THEN Err("UnexpectedEof", s)
    ELSE IF ~\E st \in Subtypes : st.tag = tag.val THEN Err("InvalidData", tag.rest)
    ELSE LET st == CHOOSE x \in Subtypes : x.tag = tag.val
             n == read_u32(tag.rest)
         IN IF ~n.ok THEN Err("UnexpectedEof", n.rest)
            ELSE IF n.val.hi # 0 \/ n.val.lo * st.width > Len(n.rest)
                 THEN Err("UnexpectedEof", n.rest)
                 ELSE LET es == read_elements(n.rest, st.kind, n.val.lo) IN
                      Ok("Array", [subtype |-> st.kind, values |-> es.val], es.rest)

\* decode_value with the Array type sent to the string decoder.
decode_value_array_as_hex(s, t) ==
    CASE t = "Character" -> decode_character(s)
      [] t = "Int8" -> decode_i8(s)
      [] t = "UInt8" -> decode_u8(s)
      [] t = "Int16" -> decode_i16(s)
      [] t = "UInt16" -> decode_u16(s)
      [] t = "Int32" -> decode_i32(s)
      [] t = "UInt32" -> decode_u32(s)
      [] t = "Float" -> decode_f32(s)
      [] t = "String" -> map_string(decode_string(s), "String")
      [] OTHER -> decode_hex(s)

decode_value(s, t) ==
    CASE t = "Character" -> decode_character(s)
      [] t = "Int8" -> decode_i8(s)
      [] t = "UInt8" -> decode_u8(s)
      [] t = "Int16" -> decode_i16(s)
      [] t = "UInt16" -> decode_u16(s)
      [] t = "Int32" -> decode_i32(s)
      [] t = "UInt32" -> decode_u32(s)
      [] t = "Float" -> decode_f32(s)
      [] t = "String" -> map_string(decode_string(s), "String")
      [] t = "Hex" -> decode_hex(s)
      [] OTHER -> decode_array(s)

\* Where a failed call can leave the cursor: read_exact on a slice leaves it
\* as it was or at its end, by the version of the standard library;
\* decode_string fails before it consumes.
cursors_after(s, t, r) ==
    IF r.ok THEN {r.rest}
    ELSE IF t \in {"String", "Hex"} THEN {r.rest}
    ELSE {r.rest, <<>>}

MaxCount == 2       \* elements in the arrays given to decode_value

\* The byte values the elements of the arrays are made of.
ElementBytes == {0, 255}

\* The wire form of the arrays of every subtype with up to MaxCount
\* elements, and the same without their last byte.
ArrayInputs ==
    LET whole == UNION {UNION {{<<st.tag, n, 0, 0, 0>> \o e : e \in [1..(n * st.width) -> ElementBytes]} :
                                n \in 0..MaxCount} : st \in Subtypes}
    IN whole \cup {SubSeq(a, 1, Len(a) - 1) : a \in whole}

InitDecode ==
    /\ src \in Inputs \cup ArrayInputs
    /\ ty = "None"
    /\ input = <<>>
    /\ result = NoResult
    /\ dataset = <<>>
    /\ index = build_index(<<>>, 0, FALSE)
    /\ query = NoQuery
    /\ reader = NoReader
    /\ out = <<>>
    /\ value = NoValue
    /\ header = <<>>
    /\ writer = <<>>
    /\ call = NoCall
    /\ vo = NoOffsets
    /\ stream = <<>>
    /\ buf = <<>>
    /\ nread = NotRead
    /\ data = <<>>
    /\ yielded = <<>>
    /\ ended = FALSE
    /\ iter = <<>>
    /\ made = NotMade
    /\ arg = NoArg
    /\ converted = NoConverted
    /\ array = NoArray
    /\ text = NoText
    /\ parsed = NotParsed
    /\ cigar = <<>>
    /\ sequence = <<>>
    /\ quality_scores = <<>>
    /\ features = NoFeatures
    /\ hsrc = <<>>
    /\ ctx = NoContext
    /\ hmap = NoMap
    /\ hbytes = <<>>
    /\ vstream = <<>>
    /\ vreader = <<>>
    /\ vrecord = DefaultRecord
    /\ vresult = NotCalled

\* A call of decode_value on the cursor, for any type.
DecodeValue ==
    /\ \E t \in Types :
            LET r == decode_value(src, t) IN
                /\ ty' = t
                /\ input' = src
                /\ result' = [ok |-> r.ok, kind |-> r.kind, val |-> r.val]
                /\ src' \in cursors_after(src, t, r)
    /\ UNCHANGED notd

NextDecode == DecodeValue

SpecDecode == InitDecode /\ [][NextDecode]_vars

----
\* The typed value encoder, the mirror of decode_value, and the round trip.

\* The smallest and the largest value of each integer type, with a value in
\* between. A u32 is held as its two 16-bit halves.
Limits(kind) ==
    CASE kind = "Character" -> {0, 65, 255}
      [] kind = "Int8" -> {-128, -1, 127}
      [] kind = "UInt8" -> {0, 1, 255}
      [] kind = "Int16" -> {-32768, -1, 32767}
      [] kind = "UInt16" -> {0, 256, 65535}
      [] kind = "Int32" -> {-2147483647 - 1, -1, 2147483647}
      [] OTHER -> {[hi |-> 0, lo |-> 0], [hi |-> 1, lo |-> 0], [hi |-> 65535, lo |-> 65535]}

\* The smallest and the largest value only: the elements of the arrays.
Extremes(kind) ==
    CASE kind = "Int8" -> {-128, 127}
      [] kind = "UInt8" -> {0, 255}
      [] kind = "Int16" -> {-32768, 32767}
      [] kind = "UInt16" -> {0, 65535}
      [] kind = "Int32" -> {-2147483647 - 1, 2147483647}
      [] OTHER -> {[hi |-> 0, lo |-> 0], [hi |-> 65535, lo |-> 65535]}

ScalarKinds == {"Character", "Int8", "UInt8", "Int16", "UInt16", "Int32", "UInt32"}
IntegerKinds == ScalarKinds \ {"Character"}

\* The bytes the string and hex values are made of.
StringBytes == {NUL, 65}

\* The typed values given to the encoder: integers, characters, strings, hex
\* strings and integer arrays.
Values ==
    UNION {{[kind |-> k, val |-> n] : n \in Limits(k)} : k \in ScalarKinds}
    \cup UNION {{[kind |-> k, val |-> s] : s \in UNION {[1..n -> StringBytes] : n \in 0..MaxCount}} :
                    k \in {"String", "Hex"}}
    \cup UNION {UNION {{[kind |-> "Array", val |-> [subtype |-> k, values |-> e]] :
                            e \in [1..n -> Extremes(k)]} : n \in 0..MaxCount} : k \in IntegerKinds}

\* The bytes of integers in little endian.
put_u8(n) == <<n % 256>>
put_u16(n) == <<n % 256, (n \div 256) % 256>>
put_u32(n) == put_u16(n.lo) \o put_u16(n.hi)
put_i32(n) ==
    LET lo == n % 65536
        hi == ((n - lo) \div 65536) % 65536
    IN put_u16(lo) \o put_u16(hi)

put_scalar(kind, n) ==
    CASE kind \in {"Character", "Int8", "UInt8"} -> put_u8(n)
      [] kind \in {"Int16", "UInt16"} -> put_u16(n % 65536)
      [] kind = "Int32" -> put_i32(n)
      [] OTHER -> put_u32(n)

\* A string or hex value: its bytes then the NUL terminator.
put_string(s) == s \o <<NUL>>

RECURSIVE put_elements(_, _)
put_elements(kind, es) ==
    IF es = <<>> THEN <<>>
    ELSE put_scalar(kind, Head(es)) \o put_elements(kind, Tail(es))

\* An array: the subtype tag, the count as a little endian u32, the elements.
put_array(a) ==
    LET st == CHOOSE x \in Subtypes : x.kind = a.subtype IN
    <<st.tag>> \o put_u32([hi |-> 0, lo |-> Len(a.values)]) \o put_elements(a.subtype, a.values)

\* The encoding of a typed value, without its type tag.
encode_value(v) ==
    CASE v.kind \in ScalarKinds -> put_scalar(v.kind, v.val)
      [] v.kind \in {"String", "Hex"} -> put_string(v.val)
      [] OTHER -> put_array(v.val)

\* What may follow the encoded value in the buffer.
Tails == {<<>>, <<NUL>>, <<65>>}

InitCodec ==
    /\ value = NoValue
    /\ src = <<>>
    /\ ty = "None"
    /\ input = <<>>
    /\ result = NoResult
    /\ dataset = <<>>
    /\ index = build_index(<<>>, 0, FALSE)
    /\ query = NoQuery
    /\ reader = NoReader
    /\ out = <<>>
    /\ header = <<>>
    /\ writer = <<>>
    /\ call = NoCall
    /\ vo = NoOffsets
    /\ stream = <<>>
    /\ buf = <<>>
    /\ nread = NotRead
    /\ data = <<>>
    /\ yielded = <<>>
    /\ ended = FALSE
    /\ iter = <<>>
    /\ made = NotMade
    /\ arg = NoArg
    /\ converted = NoConverted
    /\ array = NoArray
    /\ text = NoText
    /\ parsed = NotParsed
    /\ cigar = <<>>
    /\ sequence = <<>>
    /\ quality_scores = <<>>
    /\ features = NoFeatures
    /\ hsrc = <<>>
    /\ ctx = NoContext
    /\ hmap = NoMap
    /\ hbytes = <<>>
    /\ vstream = <<>>
    /\ vreader = <<>>
    /\ vrecord = DefaultRecord
    /\ vresult = NotCalled

\* A value is encoded into a fresh buffer, which the cursor is set on.
EncodeValue ==
    /\ \E v \in Values, tail \in Tails :
            /\ value' = v
            /\ src' = encode_value(v) \o tail
    /\ ty' = "None"
    /\ input' = <<>>
    /\ result' = NoResult
    /\ UNCHANGED <<qvars, fvars, ovars, lvars, rvars, tvars, svars, avars, evars, hvars, vvars>>

NextCodec == EncodeValue \/ DecodeValue

SpecCodec == InitCodec /\ [][NextCodec]_vars

----
\* The BCF site encoder of the filters (noodles-bcf
\* record/codec/encoder/site/filters.rs).

MaxWritten == 2     \* write_filters is called while the writer holds at most this many bytes

\* The filter identifiers, and the dictionaries: PASS comes first, then
\* the filters of the header in any order.
FilterIds == {"PASS", "s50", "q10"}

InjectiveSeqs(S) ==
    {s \in UNION {[1..n -> S] : n \in 0..Cardinality(S)} :
        \A i, j \in 1..Len(s) : s[i] = s[j] => i = j}

Dictionaries == {<<"PASS">> \o s : s \in InjectiveSeqs(FilterIds \ {"PASS"})}

\* The filters of a record: a set of identifiers iterated in insertion order.
FilterSets == InjectiveSeqs(FilterIds)

\* header.string_maps().strings().get_index_of(id): Some(i) or None.
strings_get_index_of(strings, id) ==
    IF \E i \in 1..Len(strings) : strings[i] = id
    THEN [some |-> TRUE, val |-> (CHOOSE i \in 1..Len(strings) : strings[i] = id) - 1]
    ELSE [some |-> FALSE, val |-> 0]

\* .map(..).collect::<Result<_, _>>(): the indices of the identifiers in
\* iteration order, or the error of the first identifier that has none.
RECURSIVE collect_indices(_, _)
collect_indices(strings, filters) ==
    IF filters = <<>> THEN [ok |-> TRUE, val |-> <<>>]
    ELSE LET i == strings_get_index_of(strings, Head(filters)) IN
         IF ~i.some THEN [ok |-> FALSE, val |-> <<>>]
         ELSE LET t == collect_indices(strings, Tail(filters)) IN
              IF t.ok THEN [ok |-> TRUE, val |-> <<i.val>> \o t.val] ELSE t

\* write_string_map_indices: no index is the one byte 0; otherwise a type
\* descriptor (the count in the high four bits, the integer type of the
\* indices in the low four: 1 for 8 bits, 2 for 16 bits) then the indices.
write_string_map_indices(w, indices) ==
    IF indices = <<>> THEN w \o <<0>>
    ELSE IF \A i \in 1..Len(indices) : indices[i] <= 127
         THEN w \o <<Len(indices) * 16 + 1>> \o indices
         ELSE w \o <<Len(indices) * 16 + 2>>
                \o put_elements("UInt16", indices)

\* write_filters writing the indices found before the identifier that the
\* dictionary does not have.
write_filters_partial(w, strings, filters) ==
    LET indices == collect_indices(strings, filters)
        found == collect_indices(strings, SelectSeq(filters, LAMBDA id : strings_get_index_of(strings, id).some))
    IN IF ~indices.ok
       THEN [writer |-> write_string_map_indices(w, found.val), strings |-> strings,
             result |-> "InvalidInput"]
       ELSE [writer |-> write_string_map_indices(w, indices.val), strings |-> strings,
             result |-> "Ok"]

\* write_filters leaving out the identifiers the dictionary does not have.
write_filters_skip_missing(w, strings, filters) ==
    LET found == SelectSeq(filters, LAMBDA id : strings_get_index_of(strings, id).some) IN
    [writer |-> write_string_map_indices(w, collect_indices(strings, found).val),
     strings |-> strings, result |-> "Ok"]

\* write_filters writing no filter as PASS.
write_filters_empty_as_pass(w, strings, filters) ==
    LET indices == collect_indices(strings, IF filters = <<>> THEN <<"PASS">> ELSE filters) IN
    IF ~indices.ok THEN [writer |-> w, strings |-> strings, result |-> "InvalidInput"]
    ELSE [writer |-> write_string_map_indices(w, indices.val), strings |-> strings,
          result |-> "Ok"]

\* write_filters writing the indices in the order of the dictionary.
write_filters_dictionary_order(w, strings, filters) ==
    LET sorted == SelectSeq(strings, LAMBDA id : id \in Range(filters))
        indices == collect_indices(strings, filters)
    IN IF ~indices.ok THEN [writer |-> w, strings |-> strings, result |-> "InvalidInput"]
       ELSE [writer |-> write_string_map_indices(w, collect_indices(strings, sorted).val),
             strings |-> strings, result |-> "Ok"]

\* write_filters: the writer and the dictionary after the call, and the
\* io::Result returned. The header is borrowed immutably.
write_filters(w, strings, filters) ==
    LET indices == collect_indices(strings, filters) IN
    IF ~indices.ok THEN [writer |-> w, strings |-> strings, result |-> "InvalidInput"]
    ELSE [writer |-> write_string_map_indices(w, indices.val), strings |-> strings,
          result |-> "Ok"]

InitFilters ==
    /\ header \in Dictionaries
    /\ writer = <<>>
    /\ call = NoCall
    /\ value = NoValue
    /\ src = <<>>
    /\ ty = "None"
    /\ input = <<>>
    /\ result = NoResult
    /\ dataset = <<>>
    /\ index = build_index(<<>>, 0, FALSE)
    /\ query = NoQuery
    /\ reader = NoReader
    /\ out = <<>>
    /\ vo = NoOffsets
    /\ stream = <<>>
    /\ buf = <<>>
    /\ nread = NotRead
    /\ data = <<>>
    /\ yielded = <<>>
    /\ ended = FALSE
    /\ iter = <<>>
    /\ made = NotMade
    /\ arg = NoArg
    /\ converted = NoConverted
    /\ array = NoArray
    /\ text = NoText
    /\ parsed = NotParsed
    /\ cigar = <<>>
    /\ sequence = <<>>
    /\ quality_scores = <<>>
    /\ features = NoFeatures
    /\ hsrc = <<>>
    /\ ctx = NoContext
    /\ hmap = NoMap
    /\ hbytes = <<>>
    /\ vstream = <<>>
    /\ vreader = <<>>
    /\ vrecord = DefaultRecord
    /\ vresult = NotCalled

\* write_filters(writer, header, filters).
WriteFilters ==
    /\ Len(writer) <= MaxWritten
    /\ \E filters \in FilterSets :
            LET r == write_filters(writer, header, filters) IN
                /\ writer' = r.writer
                /\ header' = r.strings
                /\ call' = [filters |-> filters, before |-> writer, result |-> r.result]
    /\ UNCHANGED notf

\* buf.clear() before another call.
Clear ==
    /\ writer # <<>>
    /\ writer' = <<>>
    /\ call' = NoCall
    /\ UNCHANGED <<header, notf>>

NextFilters == WriteFilters \/ Clear

SpecFilters == InitFilters /\ [][NextFilters]_vars

----
\* Virtual offsets: 64-bit addresses made of a 48-bit compressed block
\* offset and a 16-bit offset within the block. A 64-bit value is held as
\* its four 16-bit limbs, the least significant first; a block offset as three.

Limb == 65536

\* The block offsets and the offsets within a block of the model.
BlockOffsets == {<<l0, l1, l2>> : l0 \in {0, 5, 6, 10}, l1 \in {0, Limb - 1}, l2 \in {0, Limb - 1}}
WithinOffsets == {0, 5, 20, 999, Limb - 1}
OffsetPairs == {[block |-> b, within |-> w] : b \in BlockOffsets, w \in WithinOffsets}

\* x << 16, x | y, x >> 16 and x & 0xFFFF on 64-bit values; | is given for
\* operands with no bit in common.
shl16(x) == <<0, x[1], x[2], x[3]>>
bitor(x, y) == [i \in 1..4 |-> (x[i] + y[i]) % Limb]
shr16(x) == <<x[2], x[3], x[4], 0>>
low16(x) == x[1] % Limb

\* a < b on unsigned 64-bit values: the most significant limb that differs
\* decides.
less_u64(x, y) ==
    \E i \in 1..4 : x[i] < y[i] /\ \A j \in (i + 1)..4 : x[j] = y[j]

\* The composition with the offset within the block in the high bits.
compose_within_first(p) ==
    bitor(<<p.block[1], p.block[2], p.block[3], 0>>, <<0, 0, 0, p.within>>)

\* The virtual offset of a (block offset, offset within the block) pair.
compose(p) ==
    bitor(shl16(<<p.block[1], p.block[2], p.block[3], 0>>), <<p.within, 0, 0, 0>>)

\* block_offset = value >> 16, within_block_offset = value & 0xFFFF.
decompose(v) ==
    LET b == shr16(v) IN [block |-> <<b[1], b[2], b[3]>>, within |-> low16(v)]

InitOffsets ==
    /\ \E a, b \in OffsetPairs : vo = [NoOffsets EXCEPT !.a = a, !.b = b]
    /\ header = <<>>
    /\ writer = <<>>
    /\ call = NoCall
    /\ value = NoValue
    /\ src = <<>>
    /\ ty = "None"
    /\ input = <<>>
    /\ result = NoResult
    /\ dataset = <<>>
    /\ index = build_index(<<>>, 0, FALSE)
    /\ query = NoQuery
    /\ reader = NoReader
    /\ out = <<>>
    /\ stream = <<>>
    /\ buf = <<>>
    /\ nread = NotRead
    /\ data = <<>>
    /\ yielded = <<>>
    /\ ended = FALSE
    /\ iter = <<>>
    /\ made = NotMade
    /\ arg = NoArg
    /\ converted = NoConverted
    /\ array = NoArray
    /\ text = NoText
    /\ parsed = NotParsed
    /\ cigar = <<>>
    /\ sequence = <<>>
    /\ quality_scores = <<>>
    /\ features = NoFeatures
    /\ hsrc = <<>>
    /\ ctx = NoContext
    /\ hmap = NoMap
    /\ hbytes = <<>>
    /\ vstream = <<>>
    /\ vreader = <<>>
    /\ vrecord = DefaultRecord
    /\ vresult = NotCalled

\* The two pairs are composed.
Compose ==
    /\ vo.va = <<>>
    /\ vo' = [vo EXCEPT !.va = compose(vo.a), !.vb = compose(vo.b)]
    /\ UNCHANGED noto

\* The two virtual offsets are compared.
Compare ==
    /\ vo.va # <<>>
    /\ vo.less = "None"
    /\ vo' = [vo EXCEPT !.less = IF less_u64(vo.va, vo.vb) THEN "Less" ELSE "NotLess"]
    /\ UNCHANGED noto

\* The two virtual offsets are decomposed.
Decompose ==
    /\ vo.va # <<>>
    /\ vo.da = <<>>
    /\ vo' = [vo EXCEPT !.da = decompose(vo.va), !.db = decompose(vo.vb)]
    /\ UNCHANGED noto

NextOffsets == Compose \/ Compare \/ Decompose

SpecOffsets == InitOffsets /\ [][NextOffsets]_vars

----
\* The GFF reader: read_line (noodles-gff reader.rs).

MaxStream == 3      \* characters in the stream

LINE_FEED == "\n"
CARRIAGE_RETURN == "\r"

\* The characters of the streams, the streams, and what the buffer of the
\* caller holds before the first call.
Chars == {"a", CARRIAGE_RETURN, LINE_FEED}
Streams == UNION {[1..n -> Chars] : n \in 0..MaxStream}
Buffers == {<<>>, <<"a">>, <<"a", CARRIAGE_RETURN>>}

ends_with(s, c) == s # <<>> /\ s[Len(s)] = c
pop(s) == SubSeq(s, 1, Len(s) - 1)

\* BufRead::read_line: the characters up to and including the first line
\* feed, or up to EOF, are appended to buf; their number is returned.
bufread_read_line(r, b) ==
    LET n == IF \E i \in 1..Len(r) : r[i] = LINE_FEED
             THEN CHOOSE i \in 1..Len(r) : r[i] = LINE_FEED /\ \A j \in 1..(i - 1) : r[j] # LINE_FEED
             ELSE Len(r)
    IN [n |-> n, buf |-> b \o SubSeq(r, 1, n), reader |-> SubSeq(r, n + 1, Len(r))]

\* read_line: the reader and the buffer after the call, and the Ok(n) returned.
read_line(r, b) ==
    LET res == bufread_read_line(r, b) IN
    IF res.n = 0 THEN [n |-> 0, buf |-> res.buf, reader |-> res.reader]
    ELSE IF ends_with(res.buf, LINE_FEED)
         THEN IF ends_with(pop(res.buf), CARRIAGE_RETURN)
              THEN [res EXCEPT !.buf = pop(pop(res.buf))]
              ELSE [res EXCEPT !.buf = pop(res.buf)]
         ELSE res

InitReadLine ==
    /\ stream \in Streams
    /\ buf \in Buffers
    /\ nread = NotRead
    /\ vo = NoOffsets
    /\ header = <<>>
    /\ writer = <<>>
    /\ call = NoCall
    /\ value = NoValue
    /\ src = <<>>
    /\ ty = "None"
    /\ input = <<>>
    /\ result = NoResult
    /\ dataset = <<>>
    /\ index = build_index(<<>>, 0, FALSE)
    /\ query = NoQuery
    /\ reader = NoReader
    /\ out = <<>>
    /\ data = <<>>
    /\ yielded = <<>>
    /\ ended = FALSE
    /\ iter = <<>>
    /\ made = NotMade
    /\ arg = NoArg
    /\ converted = NoConverted
    /\ array = NoArray
    /\ text = NoText
    /\ parsed = NotParsed
    /\ cigar = <<>>
    /\ sequence = <<>>
    /\ quality_scores = <<>>
    /\ features = NoFeatures
    /\ hsrc = <<>>
    /\ ctx = NoContext
    /\ hmap = NoMap
    /\ hbytes = <<>>
    /\ vstream = <<>>
    /\ vreader = <<>>
    /\ vrecord = DefaultRecord
    /\ vresult = NotCalled

\* Reader::read_line(&mut buf).
ReadLine ==
    /\ LET r == read_line(stream, buf) IN
            /\ stream' = r.reader
            /\ buf' = r.buf
            /\ nread' = r.n
    /\ UNCHANGED notl

NextReadLine == ReadLine

SpecReadLine == InitReadLine /\ [][NextReadLine]_vars

----
\* The GFF reader: the iterator over records (Reader::records).

MaxLines == 3       \* lines in the file

\* The lines of the files: the FASTA directive, another directive, a
\* comment and two records.
StartOfFasta == <<"#", "#", "F", "A", "S", "T", "A">>
GffLines == {StartOfFasta, <<"#", "#", "g">>, <<"#", "c">>, <<"r", "1">>, <<"r", "2">>}
Files == UNION {[1..n -> GffLines] : n \in 0..MaxLines}

\* The characters of a file: each line followed by a line feed.
RECURSIVE file_chars(_)
file_chars(lines) ==
    IF lines = <<>> THEN <<>>
    ELSE Head(lines) \o <<LINE_FEED>> \o file_chars(Tail(lines))

COMMENT_PREFIX == "#"

\* Every line beginning with the prefix of comments taken as a comment.
line_kind_no_directive(b) ==
    IF b # <<>> /\ b[1] = COMMENT_PREFIX THEN "Comment" ELSE "Record"

\* The kind of a line: a directive begins with two comment prefixes, a
\* comment with one, and any other line is a record.
line_kind(b) ==
    IF b # <<>> /\ b[1] = COMMENT_PREFIX
    THEN IF Len(b) >= 2 /\ b[2] = COMMENT_PREFIX THEN "Directive" ELSE "Comment"
    ELSE "Record"

\* Records::next: lines are read until a record is found, which is
\* returned; the iterator stops at EOF and at the FASTA directive, and once
\* stopped it reads no more.
RECURSIVE records_next(_, _)
records_next(r, e) ==
    IF e THEN [reader |-> r, ended |-> TRUE, item |-> <<>>]
    ELSE LET l == read_line(r, <<>>) IN
         IF l.n = 0 THEN [reader |-> l.reader, ended |-> TRUE, item |-> <<>>]
         ELSE IF line_kind(l.buf) = "Directive" /\ l.buf = StartOfFasta
              THEN [reader |-> l.reader, ended |-> TRUE, item |-> <<>>]
              ELSE IF line_kind(l.buf) = "Record"
                   THEN [reader |-> l.reader, ended |-> FALSE, item |-> l.buf]
                   ELSE records_next(l.reader, FALSE)

InitRecords ==
    /\ data \in Files
    /\ stream = file_chars(data)
    /\ yielded = <<>>
    /\ ended = FALSE
    /\ buf = <<>>
    /\ nread = NotRead
    /\ vo = NoOffsets
    /\ header = <<>>
    /\ writer = <<>>
    /\ call = NoCall
    /\ value = NoValue
    /\ src = <<>>
    /\ ty = "None"
    /\ input = <<>>
    /\ result = NoResult
    /\ dataset = <<>>
    /\ index = build_index(<<>>, 0, FALSE)
    /\ query = NoQuery
    /\ reader = NoReader
    /\ out = <<>>
    /\ iter = <<>>
    /\ made = NotMade
    /\ arg = NoArg
    /\ converted = NoConverted
    /\ array = NoArray
    /\ text = NoText
    /\ parsed = NotParsed
    /\ cigar = <<>>
    /\ sequence = <<>>
    /\ quality_scores = <<>>
    /\ features = NoFeatures
    /\ hsrc = <<>>
    /\ ctx = NoContext
    /\ hmap = NoMap
    /\ hbytes = <<>>
    /\ vstream = <<>>
    /\ vreader = <<>>
    /\ vrecord = DefaultRecord
    /\ vresult = NotCalled

\* records.next(); an empty item stands for None.
RecordsNext ==
    /\ Len(yielded) < MaxLines + 2
    /\ LET r == records_next(stream, ended) IN
            /\ stream' = r.reader
            /\ ended' = r.ended
            /\ yielded' = Append(yielded, r.item)
    /\ UNCHANGED <<qvars, dvars, cvars, fvars, ovars, buf, nread, data, tvars, svars, avars, evars, hvars, vvars>>

NextRecords == RecordsNext

SpecRecords == InitRecords /\ [][NextRecords]_vars

----
\* The VCF record filters: Filters::try_from_iter (noodles-vcf
\* variant/record_buf/filters.rs).

MaxFilters == 3     \* strings given to try_from_iter

PASS_STATUS == <<"P", "A", "S", "S">>

\* The strings given to try_from_iter: filter names, the empty string, "0",
\* and names with whitespace.
FilterStrings ==
    {PASS_STATUS, <<"q", "1", "0">>, <<"s", "5", "0">>, <<>>, <<"0">>,
     <<"q", " ", "1", "0">>, <<"q", "\t">>}
FilterInputs == UNION {[1..n -> FilterStrings] : n \in 0..MaxFilters}

\* char::is_ascii_whitespace: space, tab, line feed, form feed, carriage return.
is_ascii_whitespace(c) == c \in {" ", "\t", "\n", "\f", "\r"}

\* is_valid_filter taking "0" as a filter name.
is_valid_filter_zero(s) ==
    IF s = <<>> THEN FALSE
    ELSE \A i \in 1..Len(s) : ~is_ascii_whitespace(s[i])

is_valid_filter(s) ==
    IF s = <<>> \/ s = <<"0">> THEN FALSE
    ELSE \A i \in 1..Len(s) : ~is_ascii_whitespace(s[i])

\* The loop of try_from_iter: each string is inserted in the IndexSet
\* filters, then checked; the first string that fails ends the loop.
RECURSIVE insert_filters(_, _)
insert_filters(filters, rest) ==
    IF rest = <<>> THEN [ok |-> TRUE, kind |-> "Fail", val |-> filters]
    ELSE LET s == Head(rest) IN
         IF s \in Range(filters) THEN [ok |-> FALSE, kind |-> "DuplicateFilter", val |-> s]
         ELSE IF ~is_valid_filter(s) THEN [ok |-> FALSE, kind |-> "InvalidFilter", val |-> s]
         ELSE insert_filters(Append(filters, s), Tail(rest))

try_from_iter(it) ==
    LET r == insert_filters(<<>>, it) IN
    IF ~r.ok THEN r
    ELSE IF r.val = <<>> THEN [ok |-> FALSE, kind |-> "Empty", val |-> <<>>]
    ELSE IF Len(r.val) = 1 /\ PASS_STATUS \in Range(r.val)
         THEN [ok |-> TRUE, kind |-> "Pass", val |-> <<>>]
         ELSE r

InitTryFromIter ==
    /\ iter \in FilterInputs
    /\ made = NotMade
    /\ data = <<>>
    /\ yielded = <<>>
    /\ ended = FALSE
    /\ stream = <<>>
    /\ buf = <<>>
    /\ nread = NotRead
    /\ vo = NoOffsets
    /\ header = <<>>
    /\ writer = <<>>
    /\ call = NoCall
    /\ value = NoValue
    /\ src = <<>>
    /\ ty = "None"
    /\ input = <<>>
    /\ result = NoResult
    /\ dataset = <<>>
    /\ index = build_index(<<>>, 0, FALSE)
    /\ query = NoQuery
    /\ reader = NoReader
    /\ out = <<>>
    /\ arg = NoArg
    /\ converted = NoConverted
    /\ array = NoArray
    /\ text = NoText
    /\ parsed = NotParsed
    /\ cigar = <<>>
    /\ sequence = <<>>
    /\ quality_scores = <<>>
    /\ features = NoFeatures
    /\ hsrc = <<>>
    /\ ctx = NoContext
    /\ hmap = NoMap
    /\ hbytes = <<>>
    /\ vstream = <<>>
    /\ vreader = <<>>
    /\ vrecord = DefaultRecord
    /\ vresult = NotCalled

\* Filters::try_from_iter(iter).
TryFromIter ==
    /\ made = NotMade
    /\ made' = try_from_iter(iter)
    /\ UNCHANGED <<iter, nott>>

NextTryFromIter == TryFromIter

SpecTryFromIter == InitTryFromIter /\ [][NextTryFromIter]_vars

----
\* The SAM data field value: the conversions from the integer types
\* (noodles-sam alignment/record/data/field/value.rs). An integer is held
\* as the pair hi, lo with 0 <= lo < 2^16, its value being hi * 2^16 + lo,
\* so that the values of a u32 and of an i64 have a place.

int(k) == [hi |-> (k - (k % 65536)) \div 65536, lo |-> k % 65536]

\* a >= b and a <= b.
int_ge(a, b) == a.hi > b.hi \/ (a.hi = b.hi /\ a.lo >= b.lo)
int_le(a, b) == int_ge(b, a)

\* n as u8, n as i8, n as u16, n as i16, n as u32: the low bits are kept.
as_u8(a) == int(a.lo % 256)
as_i8(a) == int(to_signed(a.lo % 256, 8))
as_u16(a) == int(a.lo)
as_i16(a) == int(to_signed(a.lo, 16))
as_u32(a) == [hi |-> a.hi % 65536, lo |-> a.lo]

\* The integers given to the conversions: every i8, and the values around
\* the limits of the types for the wider types.
I8s == {int(k) : k \in -128..127}
U16s == {int(k) : k \in {0, 1, 127, 128, 255, 256, 257, 32767, 32768, 65534, 65535}}
I16s == {int(k) : k \in {-32768, -32767, -130, -129, -128, -127, -1, 0, 1, 127, 128, 255, 256, 32767}}
I32s == I16s \cup {int(k) : k \in {-2147483647 - 1, -2147483647, -65536, -32770, -32769, 32768,
                                    65535, 65536, 65537, 2147483647}}
U32s == U16s \cup {int(65536), int(2147483647), [hi |-> 32768, lo |-> 0],
                   [hi |-> 65535, lo |-> 65535]}

Args ==
    {[ty |-> "i8", n |-> k] : k \in I8s} \cup {[ty |-> "u16", n |-> k] : k \in U16s}
    \cup {[ty |-> "i16", n |-> k] : k \in I16s} \cup {[ty |-> "i32", n |-> k] : k \in I32s}
    \cup {[ty |-> "u32", n |-> k] : k \in U32s}

\* impl From<u8>, From<u16>, From<u32>, From<i8>, From<i16>, From<i32> for Value.
from_u8(n) == [kind |-> "UInt8", val |-> n]

from_u16(n) ==
    IF int_le(n, int(255)) THEN [kind |-> "UInt8", val |-> as_u8(n)]
    ELSE [kind |-> "UInt16", val |-> n]

from_u32(n) ==
    IF int_le(n, int(255)) THEN [kind |-> "UInt8", val |-> as_u8(n)]
    ELSE IF int_le(n, int(65535)) THEN [kind |-> "UInt16", val |-> as_u16(n)]
    ELSE [kind |-> "UInt32", val |-> n]

from_i8(n) ==
    IF int_ge(n, int(0)) THEN from_u8(as_u8(n))
    ELSE [kind |-> "Int8", val |-> n]

\* From<i16> with i8::MIN itself left to Int16.
from_i16_above_min(n) ==
    IF int_ge(n, int(0)) THEN from_u16(as_u16(n))
    ELSE IF int_ge(n, int(-127)) THEN [kind |-> "Int8", val |-> as_i8(n)]
    ELSE [kind |-> "Int16", val |-> n]

from_i16(n) ==
    IF int_ge(n, int(0)) THEN from_u16(as_u16(n))
    ELSE IF int_ge(n, int(-128)) THEN [kind |-> "Int8", val |-> as_i8(n)]
    ELSE [kind |-> "Int16", val |-> n]

from_i32(n) ==
    IF int_ge(n, int(0)) THEN from_u32(as_u32(n))
    ELSE IF int_ge(n, int(-128)) THEN [kind |-> "Int8", val |-> as_i8(n)]
    ELSE IF int_ge(n, int(-32768)) THEN [kind |-> "Int16", val |-> as_i16(n)]
    ELSE [kind |-> "Int32", val |-> n]

value_from(a) ==
    CASE a.ty = "i8" -> from_i8(a.n)
      [] a.ty = "u16" -> from_u16(a.n)
      [] a.ty = "i16" -> from_i16(a.n)
      [] a.ty = "i32" -> from_i32(a.n)
      [] OTHER -> from_u32(a.n)

\* Value::as_int: Some(i64::from(n)) for the integer variants, None otherwise.
as_int(v) ==
    IF v.kind \in {"Int8", "UInt8", "Int16", "UInt16", "Int32", "UInt32"}
    THEN [some |-> TRUE, val |-> v.val]
    ELSE [some |-> FALSE, val |-> <<>>]

InitFrom ==
    /\ arg \in Args
    /\ converted = NoConverted
    /\ iter = <<>>
    /\ made = NotMade
    /\ data = <<>>
    /\ yielded = <<>>
    /\ ended = FALSE
    /\ stream = <<>>
    /\ buf = <<>>
    /\ nread = NotRead
    /\ vo = NoOffsets
    /\ header = <<>>
    /\ writer = <<>>
    /\ call = NoCall
    /\ value = NoValue
    /\ src = <<>>
    /\ ty = "None"
    /\ input = <<>>
    /\ result = NoResult
    /\ dataset = <<>>
    /\ index = build_index(<<>>, 0, FALSE)
    /\ query = NoQuery
    /\ reader = NoReader
    /\ out = <<>>
    /\ array = NoArray
    /\ text = NoText
    /\ parsed = NotParsed
    /\ cigar = <<>>
    /\ sequence = <<>>
    /\ quality_scores = <<>>
    /\ features = NoFeatures
    /\ hsrc = <<>>
    /\ ctx = NoContext
    /\ hmap = NoMap
    /\ hbytes = <<>>
    /\ vstream = <<>>
    /\ vreader = <<>>
    /\ vrecord = DefaultRecord
    /\ vresult = NotCalled

\* Value::from(n).
ValueFrom ==
    /\ converted = NoConverted
    /\ converted' = value_from(arg)
    /\ UNCHANGED <<arg, nots>>

NextFrom == ValueFrom

SpecFrom == InitFrom /\ [][NextFrom]_vars

----
\* The SAM data field value: the text form of the integer arrays, written
\* by Display and read by from_str_type with Type::Array. Texts are
\* sequences of characters; integers are hi, lo pairs as above.

ARRAY_VALUE_DELIMITER == ","

\* The character of each subtype of array.
SubtypeChars ==
    [Int8 |-> "c", UInt8 |-> "C", Int16 |-> "s", UInt16 |-> "S", Int32 |-> "i", UInt32 |-> "I"]
ArrayKinds == DOMAIN SubtypeChars

\* The largest value of each integer type and the magnitude of the smallest.
int_max(kind) ==
    CASE kind = "Int8" -> int(127)
      [] kind = "UInt8" -> int(255)
      [] kind = "Int16" -> int(32767)
      [] kind = "UInt16" -> int(65535)
      [] kind = "Int32" -> int(2147483647)
      [] OTHER -> [hi |-> 65535, lo |-> 65535]
int_min_magnitude(kind) ==
    CASE kind = "Int8" -> int(128)
      [] kind = "Int16" -> int(32768)
      [] kind = "Int32" -> [hi |-> 32768, lo |-> 0]
      [] OTHER -> int(0)

\* -a.
int_neg(a) == [hi |-> (0 - a.hi) - (IF a.lo > 0 THEN 1 ELSE 0), lo |-> (65536 - a.lo) % 65536]

\* The elements of the arrays: the smallest and the largest value of the
\* type of the elements, and two values in between.
Elements(kind) ==
    {int_neg(int_min_magnitude(kind)), int(0), int(13), int_max(kind)}
    \cup (IF int_min_magnitude(kind) # int(0) THEN {int(-2)} ELSE {})

ArrayValues ==
    UNION {UNION {{[subtype |-> k, values |-> e] : e \in [1..n -> Elements(k)]} :
                    n \in 0..MaxCount} : k \in ArrayKinds}

Digits == <<"0", "1", "2", "3", "4", "5", "6", "7", "8", "9">>

\* a / 10 and a % 10 for a >= 0.
int_div10(a) == [hi |-> a.hi \div 10, lo |-> ((a.hi % 10) * 65536 + a.lo) \div 10]
int_mod10(a) == ((a.hi % 10) * 65536 + a.lo) % 10

\* write!(f, "{}", n): the decimal digits of n, after a minus sign when n < 0.
RECURSIVE fmt_digits(_)
fmt_digits(a) ==
    IF a.hi = 0 /\ a.lo < 10 THEN <<Digits[a.lo + 1]>>
    ELSE fmt_digits(int_div10(a)) \o <<Digits[int_mod10(a) + 1]>>

fmt_int(a) == IF a.hi < 0 THEN <<"-">> \o fmt_digits(int_neg(a)) ELSE fmt_digits(a)

\* The values with the delimiter between them only.
RECURSIVE fmt_values_joined(_)
fmt_values_joined(values) ==
    IF values = <<>> THEN <<>>
    ELSE fmt_int(Head(values))
            \o (IF Tail(values) = <<>> THEN <<>>
                ELSE <<ARRAY_VALUE_DELIMITER>> \o fmt_values_joined(Tail(values)))

RECURSIVE fmt_values(_)
fmt_values(values) ==
    IF values = <<>> THEN <<>>
    ELSE <<ARRAY_VALUE_DELIMITER>> \o fmt_int(Head(values)) \o fmt_values(Tail(values))

\* Display for the integer arrays: the character of the subtype, then a
\* delimiter and the value for each value.
to_string(v) == <<SubtypeChars[v.subtype]>> \o fmt_values(v.values)

\* s.split(ARRAY_VALUE_DELIMITER): the pieces between the delimiters.
RECURSIVE split(_, _)
split(s, piece) ==
    IF s = <<>> THEN <<piece>>
    ELSE IF Head(s) = ARRAY_VALUE_DELIMITER THEN <<piece>> \o split(Tail(s), <<>>)
    ELSE split(Tail(s), Append(piece, Head(s)))

\* The digits of s from the i-th on, added to acc in base ten; a character
\* that is no digit, or a value of more than 32 bits, is an error.
RECURSIVE parse_digits(_, _, _)
parse_digits(s, i, acc) ==
    IF i > Len(s) THEN [ok |-> TRUE, val |-> acc]
    ELSE IF ~\E d \in 1..10 : Digits[d] = s[i] THEN [ok |-> FALSE, val |-> acc]
    ELSE LET d == (CHOOSE k \in 1..10 : Digits[k] = s[i]) - 1
             lo == (acc.lo * 10 + d) % 65536
             hi == acc.hi * 10 + (acc.lo * 10 + d) \div 65536
         IN IF hi > 65535 THEN [ok |-> FALSE, val |-> acc]
            ELSE parse_digits(s, i + 1, [hi |-> hi, lo |-> lo])

\* str::parse for the integer type of the kind: an optional sign (a minus
\* sign for the signed types only), then at least one digit, the value
\* being in the range of the type.
parse_int(s, kind) ==
    LET signed == kind \in {"Int8", "Int16", "Int32"}
        negative == signed /\ s # <<>> /\ s[1] = "-"
        start == IF s # <<>> /\ (s[1] = "+" \/ negative) THEN 2 ELSE 1
        m == parse_digits(s, start, int(0))
    IN IF start > Len(s) \/ ~m.ok THEN [ok |-> FALSE, val |-> int(0)]
       ELSE IF negative
            THEN IF int_le(m.val, int_min_magnitude(kind))
                 THEN [ok |-> TRUE, val |-> int_neg(m.val)]
                 ELSE [ok |-> FALSE, val |-> int(0)]
            ELSE IF int_le(m.val, int_max(kind))
                 THEN [ok |-> TRUE, val |-> m.val]
                 ELSE [ok |-> FALSE, val |-> int(0)]

\* raw_values.map(parse_x).collect::<Result<_, _>>().
RECURSIVE parse_values(_, _)
parse_values(raw_values, kind) ==
    IF raw_values = <<>> THEN [ok |-> TRUE, val |-> <<>>]
    ELSE LET n == parse_int(Head(raw_values), kind) IN
         IF ~n.ok THEN [ok |-> FALSE, val |-> <<>>]
         ELSE LET t == parse_values(Tail(raw_values), kind) IN
              IF t.ok THEN [ok |-> TRUE, val |-> <<n.val>> \o t.val] ELSE t

\* t.parse() for Subtype: the text is the character of a subtype.
parse_subtype(t) ==
    IF \E k \in ArrayKinds : t = <<SubtypeChars[k]>>
    THEN [ok |-> TRUE, val |-> CHOOSE k \in ArrayKinds : t = <<SubtypeChars[k]>>]
    ELSE [ok |-> FALSE, val |-> "None"]

parse_array(s) ==
    LET raw_values == split(s, <<>>)
        subtype == parse_subtype(Head(raw_values))
    IN IF ~subtype.ok THEN [ok |-> FALSE, kind |-> "InvalidSubtype", val |-> <<>>]
       ELSE LET values == parse_values(Tail(raw_values), subtype.val) IN
            IF ~values.ok THEN [ok |-> FALSE, kind |-> "InvalidIntValue", val |-> <<>>]
            ELSE [ok |-> TRUE, kind |-> "Array",
                  val |-> [subtype |-> subtype.val, values |-> values.val]]

\* Value::from_str_type(s, Type::Array).
from_str_type_array(s) == parse_array(s)

InitText ==
    /\ array \in ArrayValues
    /\ text = NoText
    /\ parsed = NotParsed
    /\ arg = NoArg
    /\ converted = NoConverted
    /\ iter = <<>>
    /\ made = NotMade
    /\ data = <<>>
    /\ yielded = <<>>
    /\ ended = FALSE
    /\ stream = <<>>
    /\ buf = <<>>
    /\ nread = NotRead
    /\ vo = NoOffsets
    /\ header = <<>>
    /\ writer = <<>>
    /\ call = NoCall
    /\ value = NoValue
    /\ src = <<>>
    /\ ty = "None"
    /\ input = <<>>
    /\ result = NoResult
    /\ dataset = <<>>
    /\ index = build_index(<<>>, 0, FALSE)
    /\ query = NoQuery
    /\ reader = NoReader
    /\ out = <<>>
    /\ cigar = <<>>
    /\ sequence = <<>>
    /\ quality_scores = <<>>
    /\ features = NoFeatures
    /\ hsrc = <<>>
    /\ ctx = NoContext
    /\ hmap = NoMap
    /\ hbytes = <<>>
    /\ vstream = <<>>
    /\ vreader = <<>>
    /\ vrecord = DefaultRecord
    /\ vresult = NotCalled

\* v.to_string().
Display ==
    /\ text = NoText
    /\ text' = to_string(array)
    /\ UNCHANGED <<array, parsed, nota>>

\* Value::from_str_type(&text, Type::Array).
FromStrType ==
    /\ text # NoText
    /\ parsed = NotParsed
    /\ parsed' = from_str_type_array(text)
    /\ UNCHANGED <<array, text, nota>>

NextText == Display \/ FromStrType

SpecText == InitText /\ [][NextText]_vars

----
\* The CRAM record features made from the CIGAR operations of a SAM record
\* (noodles-cram record/features.rs).

MaxOps == 2         \* operations in the CIGAR
MaxOpLen == 2       \* length of an operation

Kinds == {"Match", "Insertion", "Deletion", "Skip", "SoftClip", "HardClip", "Pad",
          "SequenceMatch", "SequenceMismatch"}
Ops == {[kind |-> k, len |-> n] : k \in Kinds, n \in 1..MaxOpLen}
Cigars == UNION {[1..n -> Ops] : n \in 0..MaxOps}

\* The operations that consume bases of the read.
advances_and_deletion(kind) ==
    kind \in {"Match", "Insertion", "SoftClip", "SequenceMatch", "SequenceMismatch", "Deletion"}

advances(kind) ==
    kind \in {"Match", "Insertion", "SoftClip", "SequenceMatch", "SequenceMismatch"}

\* The number of bases of the read a CIGAR consumes.
RECURSIVE read_length(_)
read_length(c) ==
    IF c = <<>> THEN 0
    ELSE (IF Head(c).kind \in {"Match", "Insertion", "SoftClip", "SequenceMatch", "SequenceMismatch"}
          THEN Head(c).len ELSE 0) + read_length(Tail(c))

\* The bases and the quality scores of a read of n bases.
BaseCycle == <<"A", "C", "G", "T">>
ScoreCycle == <<"N", "D", "L">>
bases_of(n) == [i \in 1..n |-> BaseCycle[((i - 1) % 4) + 1]]
scores_of(n) == [i \in 1..n |-> ScoreCycle[((i - 1) % 3) + 1]]

\* s[position] and s[start..end] with 1-based positions: the element, or
\* the elements from start up to end excluded; none when out of bounds.
index_at(s, position) ==
    IF position <= Len(s) THEN [ok |-> TRUE, val |-> s[position]]
    ELSE [ok |-> FALSE, val |-> "?"]
index_range(s, start, end) ==
    IF end - 1 <= Len(s) THEN [ok |-> TRUE, val |-> SubSeq(s, start, end - 1)]
    ELSE [ok |-> FALSE, val |-> <<>>]

Feature(kind, position, fdata) == [kind |-> kind, position |-> position, data |-> fdata]

\* The features of one operation at the read position, or a panic when the
\* bases or the quality scores are indexed out of bounds.
op_features(op, read_position, seq, scores) ==
    LET end == read_position + op.len
        base == index_at(seq, read_position)
        score == index_at(scores, read_position)
        bases == index_range(seq, read_position, end)
        scoresr == index_range(scores, read_position, end)
    IN CASE op.kind \in {"Match", "SequenceMatch", "SequenceMismatch"} ->
                IF op.len = 1
                THEN [ok |-> base.ok /\ score.ok,
                      val |-> <<Feature("ReadBase", read_position, <<base.val, score.val>>)>>]
                ELSE [ok |-> bases.ok /\ scoresr.ok,
                      val |-> <<Feature("Bases", read_position, bases.val),
                                Feature("Scores", read_position, scoresr.val)>>]
         [] op.kind = "Insertion" ->
                IF op.len = 1
                THEN [ok |-> base.ok /\ score.ok,
                      val |-> <<Feature("InsertBase", read_position, base.val),
                                Feature("QualityScore", read_position, score.val)>>]
                ELSE [ok |-> bases.ok /\ scoresr.ok,
                      val |-> <<Feature("Insertion", read_position, bases.val),
                                Feature("Scores", read_position, scoresr.val)>>]
         [] op.kind = "Deletion" -> [ok |-> TRUE, val |-> <<Feature("Deletion", read_position, op.len)>>]
         [] op.kind = "Skip" -> [ok |-> TRUE, val |-> <<Feature("ReferenceSkip", read_position, op.len)>>]
         [] op.kind = "SoftClip" ->
                IF bases.ok /\ Len(bases.val) = 1
                THEN [ok |-> score.ok,
                      val |-> <<Feature("SoftClip", read_position, bases.val),
                                Feature("QualityScore", read_position, score.val)>>]
                ELSE [ok |-> bases.ok /\ scoresr.ok,
                      val |-> <<Feature("SoftClip", read_position, bases.val),
                                Feature("Scores", read_position, scoresr.val)>>]
         [] op.kind = "HardClip" -> [ok |-> TRUE, val |-> <<Feature("HardClip", read_position, op.len)>>]
         [] OTHER -> [ok |-> TRUE, val |-> <<Feature("Padding", read_position, op.len)>>]

\* The loop of cigar_to_features from the operations ops on, with the
\* features made so far and the read position.
RECURSIVE features_loop(_, _, _, _, _)
features_loop(ops, fs, read_position, seq, scores) ==
    IF ops = <<>> THEN [state |-> "Returned", features |-> fs]
    ELSE LET op == Head(ops)
             r == op_features(op, read_position, seq, scores)
         IN IF ~r.ok THEN [state |-> "Panicked", features |-> <<>>]
            ELSE features_loop(Tail(ops), fs \o r.val,
                               IF advances(op.kind) THEN read_position + op.len ELSE read_position,
                               seq, scores)

\* cigar_to_features: the read position starts at Position::MIN.
cigar_to_features(c, seq, scores) == features_loop(c, <<>>, 1, seq, scores)

InitFeatures ==
    /\ cigar \in Cigars
    /\ sequence \in {bases_of(read_length(cigar)), <<>>}
    /\ quality_scores \in {scores_of(read_length(cigar)), <<>>}
    /\ features = NoFeatures
    /\ arg = NoArg
    /\ converted = NoConverted
    /\ iter = <<>>
    /\ made = NotMade
    /\ data = <<>>
    /\ yielded = <<>>
    /\ ended = FALSE
    /\ stream = <<>>
    /\ buf = <<>>
    /\ nread = NotRead
    /\ vo = NoOffsets
    /\ header = <<>>
    /\ writer = <<>>
    /\ call = NoCall
    /\ value = NoValue
    /\ src = <<>>
    /\ ty = "None"
    /\ input = <<>>
    /\ result = NoResult
    /\ dataset = <<>>
    /\ index = build_index(<<>>, 0, FALSE)
    /\ query = NoQuery
    /\ reader = NoReader
    /\ out = <<>>
    /\ array = NoArray
    /\ text = NoText
    /\ parsed = NotParsed
    /\ hsrc = <<>>
    /\ ctx = NoContext
    /\ hmap = NoMap
    /\ hbytes = <<>>
    /\ vstream = <<>>
    /\ vreader = <<>>
    /\ vrecord = DefaultRecord
    /\ vresult = NotCalled

\* Features::from_cigar(&cigar, &sequence, &quality_scores).
FromCigar ==
    /\ features = NoFeatures
    /\ features' = cigar_to_features(cigar, sequence, quality_scores)
    /\ UNCHANGED <<cigar, sequence, quality_scores, note>>

NextFeatures == FromCigar

SpecFeatures == InitFeatures /\ [][NextFeatures]_vars

----
\* The parser of the @HD record of a SAM header
\* (noodles-sam/src/header/parser/record/value/map/header.rs).

MaxFields == 3      \* pieces of the record

VERSION == <<"V", "N">>
TAB == "\t"

\* The pieces a record is put together from: fields with a version, fields
\* with other tags, and pieces that are no field.
Pieces ==
    { <<TAB, "V", "N", ":", "1", ".", "6">>,
      <<TAB, "V", "N", ":", "2", ".", "0">>,
      <<TAB, "S", "O", ":", "c">>,
      <<TAB, "S", "O", ":", "u">>,
      <<TAB, "G", "O", ":", "q">>,
      <<TAB, "V", "N", ":", "1", "6">>,
      <<TAB, "V", "N", ":", "1", ".", "x">>,
      <<TAB, "S">>,
      <<"S", "O", ":", "c">>,
      <<TAB, "S", "O", ";", "c">> }

RECURSIVE concat(_)
concat(ps) == IF ps = <<>> THEN <<>> ELSE Head(ps) \o concat(Tail(ps))

HeaderRecords == {concat(ps) : ps \in UNION {[1..n -> Pieces] : n \in 0..MaxFields}}

consume_delimiter(s) ==
    IF s # <<>> /\ Head(s) = TAB THEN [ok |-> TRUE, rest |-> Tail(s)]
    ELSE [ok |-> FALSE, rest |-> s]

parse_tag(s) ==
    IF Len(s) < 2 THEN [ok |-> FALSE, tag |-> <<>>, rest |-> s]
    ELSE [ok |-> TRUE, tag |-> SubSeq(s, 1, 2), rest |-> SubSeq(s, 3, Len(s))]

consume_separator(s) ==
    IF s # <<>> /\ Head(s) = ":" THEN [ok |-> TRUE, rest |-> Tail(s)]
    ELSE [ok |-> FALSE, rest |-> s]

\* The position of the first b in s, or 0.
position(s, b) ==
    IF \E i \in 1..Len(s) : s[i] = b
    THEN CHOOSE i \in 1..Len(s) : s[i] = b /\ \A j \in 1..(i - 1) : s[j] # b
    ELSE 0

parse_value(s) ==
    LET i == IF position(s, TAB) = 0 THEN Len(s) + 1 ELSE position(s, TAB)
    IN [ok |-> TRUE, val |-> SubSeq(s, 1, i - 1), rest |-> SubSeq(s, i, Len(s))]

split_once(b, delimiter) ==
    LET i == position(b, delimiter)
    IN IF i = 0 THEN [some |-> FALSE, a |-> <<>>, b |-> <<>>]
       ELSE [some |-> TRUE, a |-> SubSeq(b, 1, i - 1), b |-> SubSeq(b, i + 1, Len(b))]

\* lexical_core::parse of a u32: all of the bytes are digits, there is one
\* at least and the number fits.
lexical_parse(s) ==
    IF s = <<>> THEN [ok |-> FALSE, val |-> [hi |-> 0, lo |-> 0]]
    ELSE parse_digits(s, 1, [hi |-> 0, lo |-> 0])

parse_version(s) ==
    LET v == parse_value(s)
        p == split_once(v.val, ".")
        major == lexical_parse(p.a)
        minor == lexical_parse(p.b)
    IN IF ~p.some THEN [ok |-> FALSE, error |-> "InvalidVersion", val |-> <<>>, rest |-> v.rest]
       ELSE IF ~major.ok \/ ~minor.ok
            THEN [ok |-> FALSE, error |-> "InvalidVersion", val |-> <<>>, rest |-> v.rest]
       ELSE [ok |-> TRUE, error |-> "None", val |-> <<major.val, minor.val>>, rest |-> v.rest]

parse_other(s) ==
    LET v == parse_value(s)
    IN [ok |-> TRUE, error |-> "None", val |-> v.val, rest |-> v.rest]

try_replace_allowing(option, c, v) == [ok |-> TRUE, option |-> <<v>>]

\* Option::replace, then the check of the old value.
try_replace(option, c, v) ==
    [ok |-> ~(option # <<>> /\ ~c.allow_duplicate_tags), option |-> <<v>>]

\* IndexMap::insert: a new tag goes to the end, a known one keeps its
\* place and takes the new value.
try_insert(other_fields, c, t, v) ==
    LET known == \E i \in 1..Len(other_fields) : other_fields[i].tag = t
        after == IF known
                 THEN [i \in 1..Len(other_fields) |->
                          IF other_fields[i].tag = t THEN [tag |-> t, value |-> v]
                          ELSE other_fields[i]]
                 ELSE Append(other_fields, [tag |-> t, value |-> v])
    IN [ok |-> ~(known /\ ~c.allow_duplicate_tags), other_fields |-> after]

Failed(error, version, other_fields, rest) ==
    [state |-> "Err", error |-> error, version |-> version, other_fields |-> other_fields,
     src |-> rest]

\* The loop of parse_header and what follows it.
RECURSIVE parse_header_loop(_, _, _, _)
parse_header_loop(s, c, version, other_fields) ==
    IF s = <<>>
    THEN IF version = <<>> THEN Failed("MissingVersion", version, other_fields, s)
         ELSE [state |-> "Ok", error |-> "None", version |-> version,
               other_fields |-> other_fields, src |-> s]
    ELSE LET d == consume_delimiter(s)
             t == parse_tag(d.rest)
             p == consume_separator(t.rest)
         IN IF ~d.ok THEN Failed("InvalidField", version, other_fields, d.rest)
            ELSE IF ~t.ok THEN Failed("InvalidTag", version, other_fields, t.rest)
            ELSE IF ~p.ok THEN Failed("InvalidField", version, other_fields, p.rest)
            ELSE IF t.tag = VERSION
            THEN LET v == parse_version(p.rest)
                     r == try_replace(version, c, v.val)
                 IN IF ~v.ok THEN Failed(v.error, version, other_fields, v.rest)
                    ELSE IF ~r.ok THEN Failed("DuplicateTag", r.option, other_fields, v.rest)
                    ELSE parse_header_loop(v.rest, c, r.option, other_fields)
            ELSE LET v == parse_other(p.rest)
                     r == try_insert(other_fields, c, t.tag, v.val)
                 IN IF ~v.ok THEN Failed("InvalidOther", version, other_fields, v.rest)
                    ELSE IF ~r.ok THEN Failed("DuplicateTag", version, r.other_fields, v.rest)
                    ELSE parse_header_loop(v.rest, c, version, r.other_fields)

parse_header(s, c) == parse_header_loop(s, c, <<>>, <<>>)

InitHeader ==
    /\ hbytes \in HeaderRecords
    /\ hsrc = hbytes
    /\ ctx \in [allow_duplicate_tags : BOOLEAN]
    /\ hmap = NoMap
    /\ arg = NoArg
    /\ converted = NoConverted
    /\ iter = <<>>
    /\ made = NotMade
    /\ data = <<>>
    /\ yielded = <<>>
    /\ ended = FALSE
    /\ stream = <<>>
    /\ buf = <<>>
    /\ nread = NotRead
    /\ vo = NoOffsets
    /\ header = <<>>
    /\ writer = <<>>
    /\ call = NoCall
    /\ value = NoValue
    /\ src = <<>>
    /\ ty = "None"
    /\ input = <<>>
    /\ result = NoResult
    /\ dataset = <<>>
    /\ index = build_index(<<>>, 0, FALSE)
    /\ query = NoQuery
    /\ reader = NoReader
    /\ out = <<>>
    /\ array = NoArray
    /\ text = NoText
    /\ parsed = NotParsed
    /\ cigar = <<>>
    /\ sequence = <<>>
    /\ quality_scores = <<>>
    /\ features = NoFeatures
    /\ vstream = <<>>
    /\ vreader = <<>>
    /\ vrecord = DefaultRecord
    /\ vresult = NotCalled

\* parse_header(&mut src, &ctx): src is left where the parser stopped.
ParseHeader ==
    /\ hmap = NoMap
    /\ LET r == parse_header(hsrc, ctx)
       IN /\ hmap' = [state |-> r.state, error |-> r.error, version |-> r.version,
                      other_fields |-> r.other_fields]
          /\ hsrc' = r.src
    /\ UNCHANGED <<hbytes, ctx, noth>>

NextHeader == ParseHeader

SpecHeader == InitHeader /\ [][NextHeader]_vars

----
\* The reader of a VCF record (noodles-vcf/src/io/reader/record.rs).

MaxCuts == 2        \* places where the reader splits the line

DELIMITER == TAB
REQUIRED_FIELDS == 8

\* The two bytes of a character of two bytes.
LEAD == "C3"
CONTINUATION == "A9"

\* What a field is made of, the number of fields of a line and how a line
\* ends; every field of a line is "." but one, the first or the last.
FieldValues ==
    { <<>>, <<".">>, <<"a", "b">>, <<"a", CARRIAGE_RETURN, "b">>, <<LEAD, CONTINUATION>> }
FieldCounts == {1, 2, 7, 8, 9}
Terminators == { <<LINE_FEED>>, <<CARRIAGE_RETURN, LINE_FEED>>, <<>> }

RECURSIVE join(_)
join(fs) ==
    IF Len(fs) = 1 THEN fs[1] ELSE fs[1] \o <<DELIMITER>> \o join(Tail(fs))

LinesOf(n) ==
    { join([i \in 1..n |-> IF i = k THEN f ELSE <<".">>]) \o t :
        k \in {1, n}, f \in FieldValues, t \in Terminators }
VcfLines == UNION {LinesOf(n) : n \in FieldCounts}

\* The sets of at most k places between the bytes of a line.
RECURSIVE CutSets(_, _)
CutSets(places, k) ==
    IF k = 0 THEN {{}}
    ELSE CutSets(places, k - 1) \cup {S \cup {a} : S \in CutSets(places, k - 1), a \in places}

\* The line in chunks that end at the cuts.
RECURSIVE chunks_of(_, _, _)
chunks_of(line, cuts, from) ==
    IF from > Len(line) THEN <<>>
    ELSE LET to == IF \E c \in cuts : c >= from
                   THEN CHOOSE c \in cuts : c >= from /\ \A d \in cuts : d >= from => c <= d
                   ELSE Len(line)
         IN <<SubSeq(line, from, to)>> \o chunks_of(line, cuts, to + 1)

\* The ways the reader may hand out a line.
Splits(line) == {chunks_of(line, cuts, 1) : cuts \in CutSets(1..(Len(line) - 1), MaxCuts)}

\* BufRead::fill_buf and BufRead::consume of a reader that holds one chunk
\* at a time.
fill_buf(r) == IF r = <<>> THEN <<>> ELSE Head(r)
consume(r, n) ==
    IF n >= Len(Head(r)) THEN Tail(r)
    ELSE <<SubSeq(Head(r), n + 1, Len(Head(r)))>> \o Tail(r)

\* memchr2: the place of the first a or b in s, or 0.
memchr2(a, b, s) ==
    IF \E i \in 1..Len(s) : s[i] \in {a, b}
    THEN CHOOSE i \in 1..Len(s) : s[i] \in {a, b} /\ \A j \in 1..(i - 1) : s[j] \notin {a, b}
    ELSE 0

\* str::from_utf8 accepts s: a lead byte is followed by its continuation
\* byte, and no continuation byte stands alone.
RECURSIVE is_utf8(_)
is_utf8(s) ==
    IF s = <<>> THEN TRUE
    ELSE IF Head(s) = CONTINUATION THEN FALSE
    ELSE IF Head(s) = LEAD
         THEN Len(s) >= 2 /\ s[2] = CONTINUATION /\ is_utf8(SubSeq(s, 3, Len(s)))
    ELSE is_utf8(Tail(s))

\* The loop of read_field.
RECURSIVE read_field_loop(_, _, _, _)
read_field_loop(r, dst, match, len) ==
    LET src_ == fill_buf(r) IN
    IF match # "None" \/ src_ = <<>>
    THEN [ok |-> TRUE, len |-> len, is_eol |-> match = LINE_FEED, dst |-> dst, reader |-> r]
    ELSE LET i == memchr2(DELIMITER, LINE_FEED, src_)
             found == IF i = 0 THEN src_ ELSE SubSeq(src_, 1, i - 1)
             n == IF i = 0 THEN Len(src_) ELSE i
             b == IF ends_with(found, CARRIAGE_RETURN) THEN pop(found) ELSE found
         IN IF ~is_utf8(b)
            THEN [ok |-> FALSE, len |-> len, is_eol |-> FALSE, dst |-> dst, reader |-> r]
            ELSE read_field_loop(consume(r, n), dst \o b,
                                 IF i = 0 THEN match ELSE src_[i], len + n)

read_field(r, dst) == read_field_loop(r, dst, "None", 0)

read_required_field_to_eol(r, dst) ==
    LET f == read_field(r, dst) IN
    IF ~f.ok THEN [ok |-> FALSE, message |-> "invalid utf-8", len |-> 0, dst |-> f.dst, reader |-> f.reader]
    ELSE [ok |-> TRUE, message |-> "None", len |-> f.len, dst |-> f.dst, reader |-> f.reader]

read_required_field(r, dst) ==
    LET f == read_field(r, dst) IN
    IF ~f.ok THEN [ok |-> FALSE, message |-> "invalid utf-8", len |-> 0, dst |-> f.dst, reader |-> f.reader]
    ELSE IF f.is_eol
    THEN [ok |-> FALSE, message |-> "unexpected EOL", len |-> 0, dst |-> f.dst, reader |-> f.reader]
    ELSE [ok |-> TRUE, message |-> "None", len |-> f.len, dst |-> f.dst, reader |-> f.reader]

read_last_required_field(r, dst) == read_field(r, dst)

\* The bytes of all chunks, and the chunks without their first n bytes.
RECURSIVE bytes_of(_)
bytes_of(r) == IF r = <<>> THEN <<>> ELSE Head(r) \o bytes_of(Tail(r))
RECURSIVE consume_all(_, _)
consume_all(r, n) ==
    IF n = 0 \/ r = <<>> THEN r
    ELSE IF n >= Len(Head(r)) THEN consume_all(Tail(r), n - Len(Head(r)))
    ELSE consume(r, n)

\* super::read_line over the chunks of the reader.
vcf_read_line(r, dst) ==
    LET l == read_line(bytes_of(r), dst)
    IN [n |-> l.n, buf |-> l.buf, reader |-> consume_all(r, l.n)]

Returned(state, len, message, buf_, bounds, r) ==
    [state |-> state, len |-> len, kind |-> IF state = "Err" THEN "InvalidData" ELSE "None",
     message |-> message, buf |-> buf_, bounds |-> bounds, reader |-> r]

\* The required fields of read_record from the k-th on, and what follows
\* the last of them.
RECURSIVE read_fields(_, _, _, _, _)
read_fields(r, buf_, bounds, len, k) ==
    IF k < REQUIRED_FIELDS
    THEN LET f == read_required_field(r, buf_) IN
         IF ~f.ok THEN Returned("Err", 0, f.message, f.dst, bounds, f.reader)
         ELSE read_fields(f.reader, f.dst, [bounds EXCEPT ![k] = Len(f.dst)], len + f.len, k + 1)
    ELSE LET f == read_last_required_field(r, buf_) IN
         IF ~f.ok THEN Returned("Err", 0, "invalid utf-8", f.dst, bounds, f.reader)
         ELSE LET ends == [bounds EXCEPT ![k] = Len(f.dst)] IN
              IF f.is_eol THEN Returned("Ok", len + f.len, "None", f.dst, ends, f.reader)
              ELSE LET l == vcf_read_line(f.reader, f.dst)
                   IN Returned("Ok", len + f.len + l.n, "None", l.buf, ends, l.reader)

vcf_read_record(r, rec) == read_fields(r, <<>>, rec.bounds, 0, 1)

InitRecord ==
    /\ \E line \in VcfLines : vstream \in Splits(line)
    /\ vreader = vstream
    /\ vrecord = DefaultRecord
    /\ vresult = NotCalled
    /\ arg = NoArg
    /\ converted = NoConverted
    /\ iter = <<>>
    /\ made = NotMade
    /\ data = <<>>
    /\ yielded = <<>>
    /\ ended = FALSE
    /\ stream = <<>>
    /\ buf = <<>>
    /\ nread = NotRead
    /\ vo = NoOffsets
    /\ header = <<>>
    /\ writer = <<>>
    /\ call = NoCall
    /\ value = NoValue
    /\ src = <<>>
    /\ ty = "None"
    /\ input = <<>>
    /\ result = NoResult
    /\ dataset = <<>>
    /\ index = build_index(<<>>, 0, FALSE)
    /\ query = NoQuery
    /\ reader = NoReader
    /\ out = <<>>
    /\ array = NoArray
    /\ text = NoText
    /\ parsed = NotParsed
    /\ cigar = <<>>
    /\ sequence = <<>>
    /\ quality_scores = <<>>
    /\ features = NoFeatures
    /\ hsrc = <<>>
    /\ ctx = NoContext
    /\ hmap = NoMap
    /\ hbytes = <<>>

\* read_record(&mut reader, &mut record).
ReadRecord ==
    /\ vresult = NotCalled
    /\ LET r == vcf_read_record(vreader, vrecord)
       IN /\ vresult' = [state |-> r.state, len |-> r.len, kind |-> r.kind, message |-> r.message]
          /\ vrecord' = [buf |-> r.buf, bounds |-> r.bounds]
          /\ vreader' = r.reader
    /\ UNCHANGED <<vstream, notv>>

NextRecord == ReadRecord

SpecRecord == InitRecord /\ [][NextRecord]_vars

----
\* Properties of the indexed query.

Last == IF out = <<>> THEN "NotStarted" ELSE out[Len(out)].t
Iterating == query.kind \in {"bcf", "gff"}

\* The file positions of the records yielded as Ok items.
YieldedOk == {out[k].idx : k \in {j \in 1..Len(out) : out[j].t = "Ok"}}

\* The records of the dataset on the query's reference sequence whose
\* interval intersects the query's interval.
Matching ==
    {i \in 1..Len(dataset) :
        /\ dataset[i].start # 0
        /\ ~dataset[i].fault
        /\ dataset[i].chrom = query.chromosome_id
        /\ dataset[i].start <= query.interval.end
        /\ query.interval.start <= dataset[i].end}

\* The loop of next always ends within its fuel.
NeverDiverged == \A k \in 1..Len(out) : out[k].t # "Diverged"

\* C1: the records a query yields as Ok items are exactly the records of the
\* dataset on the query's reference sequence whose interval intersects the
\* query's: none else is ever yielded, and all of them have been yielded
\* when the iterator returns None.
C1_YieldsExactlyIntersecting ==
    Iterating =>
        /\ YieldedOk \subseteq Matching
        /\ Last = "None" => YieldedOk = Matching

C1_Witness ==
    /\ query.kind = "bcf"
    /\ Last = "None"
    /\ YieldedOk # {}
    /\ reader.ops > Cardinality(YieldedOk) + 1

\* C2: when the chunks of the candidate bins overlap, each record is still
\* returned at most once.
C2_AtMostOnce ==
    \A j, k \in 1..Len(out) :
        (j # k /\ out[j].t \in {"Ok", "Err"} /\ out[k].t \in {"Ok", "Err"})
            => out[j].idx # out[k].idx

OverlappingCandidates ==
    \E a, b \in candidate_chunks(index, query.chromosome_id, query.interval) :
        a # b /\ a.start < b.end /\ b.start < a.end

C2_Witness ==
    /\ query.kind = "bcf"
    /\ OverlappingCandidates
    /\ Last = "None"
    /\ \E i \in YieldedOk :
            \E a, b \in candidate_chunks(index, query.chromosome_id, query.interval) :
                a # b /\ a.start < i /\ i <= a.end /\ b.start < i /\ i <= b.end

\* C3: once next has returned None, every later call returns None and makes
\* no seek or read on the underlying reader.
C3_ExhaustedIsTerminal ==
    [][Last = "None" => (Last' = "None" /\ reader' = reader)]_vars

C3_Witness ==
    /\ query.kind = "bcf"
    /\ Len(out) >= 3
    /\ out[1].t = "Ok"
    /\ out[Len(out) - 1].t = "None"
    /\ out[Len(out)].t = "None"

\* C4: an error item is the last item: every call to next after one that
\* returned an error returns None.
C4_ErrIsLastItem ==
    query.kind = "bcf" =>
        \A k \in 1..(Len(out) - 1) : out[k].t = "Err" => out[k + 1].t = "None"

\* C5 (as stated): the interval of a record is half-open, so that a record
\* that ends at the first position of the query and starts before it is not
\* yielded.
C5_HalfOpenInterval ==
    Iterating =>
        \A i \in YieldedOk :
            ~(dataset[i].start < dataset[i].end /\ dataset[i].end = query.interval.start)

\* C5 (amended): the interval of a record is closed: every yielded record
\* ends at or after the first position of the query, and a record of the
\* query's reference sequence that ends at that position has been yielded
\* when the iterator returns None.
C5_ClosedInterval ==
    Iterating =>
        /\ \A i \in YieldedOk : dataset[i].end >= query.interval.start
        /\ Last = "None" =>
               \A i \in 1..Len(dataset) :
                    (/\ dataset[i].chrom = query.chromosome_id
                     /\ dataset[i].start # 0
                     /\ ~dataset[i].fault
                     /\ dataset[i].end = query.interval.start) => i \in YieldedOk

C5_Witness ==
    /\ query.kind = "bcf"
    /\ Last = "None"
    /\ \E i \in YieldedOk :
            dataset[i].start < dataset[i].end /\ dataset[i].end = query.interval.start

\* C6: a query with an empty list of candidate chunks succeeds, and its
\* first and every call to next returns None.
C6_EmptyChunksYieldNothing ==
    (Iterating /\ query.chunks = <<>>) =>
        /\ query.result = "Ok"
        /\ \A k \in 1..Len(out) : out[k].t = "None"

C6_Witness ==
    /\ query.kind = "bcf"
    /\ query.chunks = <<>>
    /\ dataset # <<>>
    /\ Len(out) >= 1
    /\ out[1].t = "None"

\* C7: the GFF query fails with InvalidInput when the index has no header or
\* the region's reference sequence name is not among the names of the
\* header, and then neither the reader nor the index has changed.
C7_UnknownReferenceSequence ==
    [][(/\ query.kind = "none"
        /\ query'.kind \in {"gff", "err"}
        /\ \/ ~index.header.some
           \/ query'.name \notin Range(index.header.reference_sequence_names))
       => (/\ query'.kind = "err"
           /\ query'.result = "InvalidInput"
           /\ reader' = reader
           /\ index' = index)]_vars

C7_Witness ==
    /\ query.kind = "err"
    /\ query.result = "InvalidInput"
    /\ index.header.some
    /\ query.name \notin Range(index.header.reference_sequence_names)
    /\ reader = NoReader

----
\* Properties of decode_value.

Decoded == ty # "None"

\* The number of bytes of the scalar types.
WidthOf(t) ==
    CASE t \in {"Character", "Int8", "UInt8"} -> 1
      [] t \in {"Int16", "UInt16"} -> 2
      [] OTHER -> 4

\* The unsigned little endian value of the first n bytes of s, n <= 2.
LittleEndian(s, n) == IF n = 1 THEN s[1] ELSE s[1] + 256 * s[2]

\* v is the value of type t that the first bytes of s hold in little endian,
\* in two's complement for the signed types.
IsLittleEndianValue(v, t, s) ==
    CASE t \in {"Character", "UInt8", "UInt16"} -> v = LittleEndian(s, WidthOf(t))
      [] t = "Int8" -> v \in -128..127 /\ (v - s[1]) % 256 = 0
      [] t = "Int16" -> v \in -32768..32767 /\ (v - LittleEndian(s, 2)) % 65536 = 0
      [] t = "UInt32" -> v.lo = LittleEndian(s, 2) /\ v.hi = s[3] + 256 * s[4]
      [] t = "Int32" ->
            /\ (v - LittleEndian(s, 2)) % 65536 = 0
            /\ ((v - LittleEndian(s, 2)) \div 65536 - (s[3] + 256 * s[4])) % 65536 = 0
            /\ (v - LittleEndian(s, 2)) \div 65536 \in -32768..32767
      [] OTHER -> FALSE

\* C8: decoding a String or Hex from an input with a NUL returns the bytes
\* before the first NUL and leaves the cursor right after that NUL; an input
\* without NUL is an error.
C8_StringStopsAtFirstNul ==
    (Decoded /\ ty \in {"String", "Hex"}) =>
        IF \E i \in 1..Len(input) : input[i] = NUL
        THEN /\ result.ok
             /\ result.kind = ty
             /\ \A i \in 1..Len(result.val) : result.val[i] # NUL
             /\ input = result.val \o <<NUL>> \o src
             /\ Len(input) - Len(src) = Len(result.val) + 1
        ELSE ~result.ok

C8_Witness ==
    /\ Decoded
    /\ ty = "Hex"
    /\ result.ok
    /\ Len(result.val) >= 2
    /\ \E i \in 1..Len(src) : src[i] = NUL

\* C9: for a scalar integer or character type and an input of at least the
\* width of the type, decode_value returns the variant of the type with the
\* little endian value of the first bytes and advances the cursor by the
\* width.
C9_ScalarsLittleEndian ==
    (/\ Decoded
     /\ ty \in {"Character", "Int8", "UInt8", "Int16", "UInt16", "Int32", "UInt32"}
     /\ Len(input) >= WidthOf(ty)) =>
        /\ result.ok
        /\ result.kind = ty
        /\ IsLittleEndianValue(result.val, ty, input)
        /\ src = SubSeq(input, WidthOf(ty) + 1, Len(input))

C9_Witness ==
    /\ Decoded
    /\ ty = "Int16"
    /\ result.ok
    /\ result.val = -32767
    /\ src # <<>>

\* The input is truncated for the type: shorter than the scalar, a string
\* without NUL, an array with an unknown subtype, an incomplete count or
\* fewer bytes than count elements take.
Truncated(s, t) ==
    CASE t \in {"String", "Hex"} -> \A i \in 1..Len(s) : s[i] # NUL
      [] t = "Array" ->
            \/ Len(s) < 5
            \/ \A st \in Subtypes : st.tag # s[1]
            \/ \E st \in Subtypes :
                    /\ st.tag = s[1]
                    /\ \/ s[4] # 0
                       \/ s[5] # 0
                       \/ (s[2] + 256 * s[3]) * st.width > Len(s) - 5
      [] OTHER -> Len(s) < WidthOf(t)

\* C10: decode_value returns an error whenever the input is truncated for
\* the requested type.
C10_TruncatedIsError ==
    (Decoded /\ Truncated(input, ty)) => ~result.ok

C10_Witness ==
    /\ Decoded
    /\ ty = "String"
    /\ input # <<>>
    /\ Truncated(input, ty)
    /\ ~result.ok
    /\ result.kind = "InvalidData"

\* The subtype of the tag byte b.
SubtypeOf(b) == CHOOSE st \in Subtypes : st.tag = b

\* The input holds a whole array: a known subtype tag, a count and at least
\* count elements.
WholeArray(s) ==
    /\ Len(s) >= 5
    /\ \E st \in Subtypes : st.tag = s[1]
    /\ s[4] = 0 /\ s[5] = 0
    /\ (s[2] + 256 * s[3]) * SubtypeOf(s[1]).width <= Len(s) - 5

\* C11: decoding an Array reads the subtype tag, the little endian count and
\* count elements of the width of the subtype, and gives the array of that
\* subtype with exactly count elements, each the little endian value of its
\* bytes; the cursor is left after the last element. Tag 'C', count 1,
\* element 0 gives the UInt8 array [0], and a count of 0 an empty array.
C11_ArrayDecode ==
    (Decoded /\ ty = "Array" /\ WholeArray(input)) =>
        LET st == SubtypeOf(input[1])
            count == input[2] + 256 * input[3]
        IN /\ result.ok
           /\ result.kind = "Array"
           /\ result.val.subtype = st.kind
           /\ Len(result.val.values) = count
           /\ \A i \in 1..count :
                IsLittleEndianValue(result.val.values[i],
                                    IF st.kind = "Float" THEN "UInt32" ELSE st.kind,
                                    SubSeq(input, 6 + (i - 1) * st.width, 5 + i * st.width))
           /\ src = SubSeq(input, 6 + count * st.width, Len(input))
           /\ input = <<67, 1, 0, 0, 0, 0>> =>
                result.val = [subtype |-> "UInt8", values |-> <<0>>]
           /\ count = 0 => result.val.values = <<>>

C11_Witness ==
    /\ Decoded
    /\ ty = "Array"
    /\ input = <<67, 1, 0, 0, 0, 0>>
    /\ result.ok
    /\ result.val = [subtype |-> "UInt8", values |-> <<0>>]
    /\ src = <<>>

----
\* Properties of the encoder and decoder taken together.

\* The value has just been encoded and decoded with its own type.
RoundTripped ==
    /\ value # NoValue
    /\ Decoded
    /\ ty = value.kind
    /\ Len(input) >= Len(encode_value(value))
    /\ SubSeq(input, 1, Len(encode_value(value))) = encode_value(value)

\* Decoding gave the value back and consumed exactly its encoding.
GaveBack ==
    /\ result.ok
    /\ result.kind = value.kind
    /\ result.val = value.val
    /\ src = SubSeq(input, Len(encode_value(value)) + 1, Len(input))

HasNul(s) == \E i \in 1..Len(s) : s[i] = NUL

\* C12 as stated: every integer, character, string, hex and integer array
\* value decodes from its encoding to itself, the decoder consuming exactly
\* the encoded bytes.
C12_RoundTrip == RoundTripped => GaveBack

\* C12: every integer, character and integer array value, and every string
\* and hex value that holds no NUL byte, decodes from its encoding to itself,
\* the decoder consuming exactly the encoded bytes.
C12_RoundTripWithoutNul ==
    (RoundTripped /\ (value.kind \in {"String", "Hex"} => ~HasNul(value.val))) => GaveBack

C12_Witness ==
    /\ RoundTripped
    /\ value.kind = "Array"
    /\ value.val.subtype = "Int32"
    /\ Len(value.val.values) = MaxCount
    /\ value.val.values[1] = -2147483647 - 1
    /\ GaveBack
    /\ src # <<>>

----
\* Properties of write_filters.

Called == call.result # "None"

\* The bytes the last call has written.
Written == SubSeq(writer, Len(call.before) + 1, Len(writer))

\* The 0-based insertion position of an identifier in the dictionary.
PositionOf(id) == (CHOOSE i \in 1..Len(header) : header[i] = id) - 1

\* The sequences of indices of the bounded dictionaries, repeated indices
\* included.
IndexSeqs == UNION {[1..n -> 0..(Cardinality(FilterIds) - 1)] : n \in 0..Cardinality(FilterIds)}

\* C13: a call of write_filters with an identifier that the dictionary does
\* not hold returns the InvalidInput error and leaves the dictionary as it was.
C13_MissingIsInvalidInput ==
    [][(call'.result # "None" /\ \E i \in 1..Len(call'.filters) : call'.filters[i] \notin Range(header))
            => (call'.result = "InvalidInput" /\ header' = header)]_vars

C13_Witness ==
    /\ Called
    /\ call.filters = <<"PASS", "q10">>
    /\ header = <<"PASS", "s50">>
    /\ call.result = "InvalidInput"

\* C14: no filter is written as the one byte 0x00, which is not what the
\* single index 0 is written as (0x11 0x00), and the bytes written stand for
\* one sequence of indices only.
C14_EmptyIsZeroCountMarker ==
    (Called /\ call.result = "Ok") =>
        /\ call.filters = <<>> => Written = <<0>>
        /\ call.filters = <<"PASS">> => Written = <<17, 0>>
        /\ \A a, b \in IndexSeqs :
                (write_string_map_indices(<<>>, a) = Written
                    /\ write_string_map_indices(<<>>, b) = Written) => a = b
        /\ \E a \in IndexSeqs : write_string_map_indices(<<>>, a) = Written

C14_Witness ==
    /\ Called
    /\ call.result = "Ok"
    /\ call.filters = <<>>
    /\ Written = <<0>>
    /\ call.before = <<17, 0>>

\* C15: when the dictionary holds every identifier, the call writes one index
\* for each identifier, in iteration order, each the insertion position of
\* its identifier in the dictionary: with PASS, s50, q10 in the dictionary,
\* PASS gives [0], q10 gives [2] and q10, s50 gives [2, 1].
C15_IndicesInIterationOrder ==
    (Called /\ \A i \in 1..Len(call.filters) : call.filters[i] \in Range(header)) =>
        /\ call.result = "Ok"
        /\ call.filters # <<>> =>
                /\ Len(Written) = Len(call.filters) + 1
                /\ Written[1] = Len(call.filters) * 16 + 1
                /\ \A i \in 1..Len(call.filters) : Written[i + 1] = PositionOf(call.filters[i])
        /\ header = <<"PASS", "s50", "q10">> =>
                /\ call.filters = <<"PASS">> => Written = <<17, 0>>
                /\ call.filters = <<"q10">> => Written = <<17, 2>>
                /\ call.filters = <<"q10", "s50">> => Written = <<33, 2, 1>>

C15_Witness ==
    /\ Called
    /\ header = <<"PASS", "s50", "q10">>
    /\ call.filters = <<"q10", "s50">>
    /\ call.result = "Ok"
    /\ Written = <<33, 2, 1>>

----
\* Properties of the virtual offsets.

\* x < y on block offsets, as numbers of 48 bits.
BlockLess(x, y) ==
    \/ x[3] < y[3]
    \/ x[3] = y[3] /\ x[2] < y[2]
    \/ x[3] = y[3] /\ x[2] = y[2] /\ x[1] < y[1]

\* (block, within) pairs in lexicographic order.
PairLess(p, q) ==
    \/ BlockLess(p.block, q.block)
    \/ p.block = q.block /\ p.within < q.within

\* C16: a virtual offset is less than another as a 64-bit value exactly when
\* its (block, within) pair is lexicographically less, and decomposing a
\* composed virtual offset with >> 16 and & 0xFFFF gives the pair back.
C16_OrderIsLexicographic ==
    /\ vo.less # "None" => (vo.less = "Less" <=> PairLess(vo.a, vo.b))
    /\ vo.da # <<>> => (vo.da = vo.a /\ vo.db = vo.b)

C16_Witness ==
    /\ vo.a = [block |-> <<5, 0, 0>>, within |-> 999]
    /\ vo.b = [block |-> <<6, 0, 0>>, within |-> 0]
    /\ vo.less = "Less"
    /\ vo.da = vo.a
    /\ vo.db = vo.b

----
\* Properties of the GFF read_line.

\* The next line of the stream, its terminator included.
NextLine(r) ==
    IF \E i \in 1..Len(r) : r[i] = LINE_FEED
    THEN SubSeq(r, 1, CHOOSE i \in 1..Len(r) : r[i] = LINE_FEED /\ \A j \in 1..(i - 1) : r[j] # LINE_FEED)
    ELSE r

\* A line without its final line feed and the carriage return before it.
Stripped(l) ==
    IF l # <<>> /\ l[Len(l)] = LINE_FEED
    THEN IF Len(l) >= 2 /\ l[Len(l) - 1] = CARRIAGE_RETURN
         THEN SubSeq(l, 1, Len(l) - 2)
         ELSE SubSeq(l, 1, Len(l) - 1)
    ELSE l

\* C17: read_line appends the next line of the stream to the buffer without
\* its final line feed and the carriage return right before that line feed,
\* a last line with no line feed unchanged; it returns the number of bytes
\* consumed, which is 0 exactly at EOF, the buffer then being unchanged.
C17_ReadLineAppendsLine ==
    [][/\ buf' = buf \o Stripped(NextLine(stream))
       /\ nread' = Len(NextLine(stream))
       /\ stream' = SubSeq(stream, nread' + 1, Len(stream))
       /\ (nread' = 0 <=> stream = <<>>)
       /\ (stream = <<>> => buf' = buf)]_vars

----
\* Properties of the GFF records iterator.

\* The lines before the first FASTA directive.
BeforeFasta(lines) ==
    IF \E i \in 1..Len(lines) : lines[i] = StartOfFasta
    THEN SubSeq(lines, 1, (CHOOSE i \in 1..Len(lines) :
                            lines[i] = StartOfFasta /\ \A j \in 1..(i - 1) : lines[j] # StartOfFasta) - 1)
    ELSE lines

IsRecordLine(l) == l[1] # "#"

----
\* Properties of Filters::try_from_iter.

\* The string is "", "0" or holds an ASCII whitespace character.
InvalidName(s) ==
    \/ s = <<>>
    \/ s = <<"0">>
    \/ \E i \in 1..Len(s) : s[i] \in {" ", "\t", "\n", "\f", "\r"}

\* The i-th string given occurs for the second time, or is invalid.
Repeated(i) == \E j \in 1..(i - 1) : iter[j] = iter[i]
Offending(i) == Repeated(i) \/ InvalidName(iter[i])

\* C19: try_from_iter returns Err(Empty) for no string, the DuplicateFilter
\* or InvalidFilter error of the first string that occurs a second time or
\* is invalid, Pass for the one string PASS, and Fail with the strings in
\* the order given otherwise.
C19_TryFromIter ==
    made # NotMade =>
        IF iter = <<>> THEN made = [ok |-> FALSE, kind |-> "Empty", val |-> <<>>]
        ELSE IF \E i \in 1..Len(iter) : Offending(i)
        THEN LET first == CHOOSE i \in 1..Len(iter) :
                                Offending(i) /\ \A j \in 1..(i - 1) : ~Offending(j)
             IN /\ ~made.ok
                /\ made.val = iter[first]
                /\ Repeated(first) => made.kind = "DuplicateFilter"
                /\ InvalidName(iter[first]) => made.kind = "InvalidFilter"
        ELSE IF iter = <<PASS_STATUS>> THEN made = [ok |-> TRUE, kind |-> "Pass", val |-> <<>>]
        ELSE made = [ok |-> TRUE, kind |-> "Fail", val |-> iter]

C19_Witness ==
    /\ iter = <<<<"q", "1", "0">>, <<"0">>, <<"q", "1", "0">>>>
    /\ made = [ok |-> FALSE, kind |-> "InvalidFilter", val |-> <<"0">>]

----
\* Properties of the conversions from integers to SAM data field values.

\* The narrowest integer variant that holds the integer of the pair hi, lo,
\* unsigned when the integer is not negative.
Narrowest(a) ==
    CASE a.hi = 0 /\ a.lo <= 255 -> "UInt8"
      [] a.hi = 0 /\ a.lo >= 256 -> "UInt16"
      [] a.hi >= 1 -> "UInt32"
      [] a.hi = -1 /\ a.lo >= 65536 - 128 -> "Int8"
      [] a.hi = -1 /\ a.lo \in 32768..(65536 - 129) -> "Int16"
      [] OTHER -> "Int32"

\* C20: an i8, i16, i32, u16 or u32 integer n is converted to the narrowest
\* integer variant that holds it, unsigned when n >= 0 (UInt8 up to 255,
\* UInt16 up to 65535, UInt32 above; Int8 down to -128, Int16 down to
\* -32768, Int32 below), and as_int of the value made is n.
C20_NarrowestIntegerVariant ==
    converted # NoConverted =>
        /\ converted.kind = Narrowest(arg.n)
        /\ as_int(converted) = [some |-> TRUE, val |-> arg.n]

C20_Witness ==
    /\ arg = [ty |-> "i32", n |-> int(-32768)]
    /\ converted.kind = "Int16"
    /\ as_int(converted).val = int(-32768)

\* C26: a call of write_filters that fails on an identifier the dictionary
\* does not hold writes nothing: the writer holds the bytes it held before
\* the call, whether or not earlier identifiers were found.
C26_FailureWritesNothing ==
    [][call'.result = "InvalidInput" => writer' = writer]_vars

C26_Witness ==
    /\ Called
    /\ header = <<"PASS", "s50">>
    /\ call.filters = <<"s50", "q10">>
    /\ call.result = "InvalidInput"
    /\ call.before = <<17, 0>>
    /\ writer = call.before

----
\* Properties of the text form of the SAM integer arrays.

\* C21: the text of an integer array is the character of its subtype
\* followed by a delimiter and the value for each element, and parsing that
\* text as an array gives the array back: the same subtype and the same
\* elements in order, for every length from 0.
C21_ArrayTextRoundTrip ==
    /\ text # NoText =>
            /\ text[1] = SubtypeChars[array.subtype]
            /\ Len(SelectSeq(text, LAMBDA ch : ch = ",")) = Len(array.values)
            /\ array.values = <<>> => Len(text) = 1
    /\ parsed # NotParsed =>
            parsed = [ok |-> TRUE, kind |-> "Array", val |-> array]

C21_Witness ==
    /\ array = [subtype |-> "Int32", values |-> <<[hi |-> -32768, lo |-> 0], int(13)>>]
    /\ text = <<"i", ",", "-", "2", "1", "4", "7", "4", "8", "3", "6", "4", "8", ",", "1", "3">>
    /\ parsed.ok
    /\ parsed.val = array

----
\* Properties of the CRAM features made from a CIGAR.

Consuming == {"Match", "SequenceMatch", "SequenceMismatch", "Insertion", "SoftClip"}

\* The read position of the i-th operation: 1 plus the lengths of the
\* operations before it that consume bases of the read.
RECURSIVE ConsumedBefore(_)
ConsumedBefore(i) ==
    IF i <= 1 THEN 0
    ELSE ConsumedBefore(i - 1) + (IF cigar[i - 1].kind \in Consuming THEN cigar[i - 1].len ELSE 0)
ReadPosition(i) == 1 + ConsumedBefore(i)

\* The kinds of the features of an operation.
FeatureKinds(op) ==
    CASE op.kind \in {"Match", "SequenceMatch", "SequenceMismatch"} ->
            IF op.len = 1 THEN <<"ReadBase">> ELSE <<"Bases", "Scores">>
      [] op.kind = "Insertion" ->
            IF op.len = 1 THEN <<"InsertBase", "QualityScore">> ELSE <<"Insertion", "Scores">>
      [] op.kind = "SoftClip" ->
            IF op.len = 1 THEN <<"SoftClip", "QualityScore">> ELSE <<"SoftClip", "Scores">>
      [] op.kind = "Deletion" -> <<"Deletion">>
      [] op.kind = "Skip" -> <<"ReferenceSkip">>
      [] op.kind = "HardClip" -> <<"HardClip">>
      [] OTHER -> <<"Padding">>

\* The kind and the position of the features expected of the operations
\* from the i-th on.
RECURSIVE ExpectedFrom(_)
ExpectedFrom(i) ==
    IF i > Len(cigar) THEN <<>>
    ELSE [j \in 1..Len(FeatureKinds(cigar[i])) |->
                [kind |-> FeatureKinds(cigar[i])[j], position |-> ReadPosition(i)]]
            \o ExpectedFrom(i + 1)

\* The bases and the quality scores cover the read positions of the CIGAR.
Covered == Len(sequence) >= read_length(cigar) /\ Len(quality_scores) >= read_length(cigar)

\* C22: from_cigar returns the features of the operations in the order of
\* the operations, each at the read position of its operation, which is 1
\* plus the lengths of the Match, SequenceMatch, SequenceMismatch, Insertion
\* and SoftClip operations before it; Deletion, Skip, HardClip and Pad give
\* a feature and leave the read position where it is.
C22_FeaturesAtReadPosition ==
    /\ (features # NoFeatures /\ Covered) => features.state = "Returned"
    /\ features.state = "Returned" =>
            [j \in 1..Len(features.features) |->
                [kind |-> features.features[j].kind, position |-> features.features[j].position]]
                = ExpectedFrom(1)

C22_Witness ==
    /\ cigar = <<[kind |-> "Deletion", len |-> 2], [kind |-> "Match", len |-> 2]>>
    /\ features.state = "Returned"
    /\ features.features = <<Feature("Deletion", 1, 2), Feature("Bases", 1, <<"A", "C">>),
                             Feature("Scores", 1, <<"N", "D">>)>>

----
\* Properties of the parser of the @HD record.

\* The pieces of s between the tabs.
RECURSIVE TabSplit(_, _)
TabSplit(s, piece) ==
    IF s = <<>> THEN <<piece>>
    ELSE IF Head(s) = TAB THEN <<piece>> \o TabSplit(Tail(s), <<>>)
    ELSE TabSplit(Tail(s), Append(piece, Head(s)))

\* The fields of the record: what follows each tab.
HeaderFields == IF hbytes = <<>> THEN <<>> ELSE Tail(TabSplit(hbytes, <<>>))
TagOf(f) == SubSeq(f, 1, 2)
ValueOf(f) == SubSeq(f, 4, Len(f))

IsDigits(s) == s # <<>> /\ \A i \in 1..Len(s) : \E d \in 1..10 : Digits[d] = s[i]
RECURSIVE NumberOf(_)
NumberOf(s) ==
    IF s = <<>> THEN 0
    ELSE 10 * NumberOf(SubSeq(s, 1, Len(s) - 1)) + (CHOOSE d \in 0..9 : Digits[d + 1] = s[Len(s)])

IsVersion(v) ==
    \E k \in 1..Len(v) :
        /\ v[k] = "." /\ \A j \in 1..(k - 1) : v[j] # "."
        /\ IsDigits(SubSeq(v, 1, k - 1)) /\ IsDigits(SubSeq(v, k + 1, Len(v)))
VersionOf(v) ==
    LET k == CHOOSE k \in 1..Len(v) : v[k] = "."
    IN <<[hi |-> 0, lo |-> NumberOf(SubSeq(v, 1, k - 1))],
         [hi |-> 0, lo |-> NumberOf(SubSeq(v, k + 1, Len(v)))]>>

\* Every field is a tab, a tag of two bytes, a colon and a value, and the
\* value of a VN field is a version.
FieldParses(f) ==
    /\ Len(f) >= 3 /\ f[3] = ":"
    /\ TagOf(f) = VERSION => IsVersion(ValueOf(f))
AllFieldsParse ==
    /\ hbytes = <<>> \/ Head(hbytes) = TAB
    /\ \A i \in 1..Len(HeaderFields) : FieldParses(HeaderFields[i])

NoVersionField == \A i \in 1..Len(HeaderFields) : TagOf(HeaderFields[i]) # VERSION
TagRepeats ==
    \E i, j \in 1..Len(HeaderFields) : i < j /\ TagOf(HeaderFields[i]) = TagOf(HeaderFields[j])

\* The last field with the tag of field i.
LastOf(i) ==
    CHOOSE j \in i..Len(HeaderFields) :
        /\ TagOf(HeaderFields[j]) = TagOf(HeaderFields[i])
        /\ \A k \in (j + 1)..Len(HeaderFields) : TagOf(HeaderFields[k]) # TagOf(HeaderFields[i])
IsFirst(i) == \A k \in 1..(i - 1) : TagOf(HeaderFields[k]) # TagOf(HeaderFields[i])

\* The other fields in the order of their first occurrence, each with the
\* value of its last occurrence.
RECURSIVE OtherFieldsFrom(_)
OtherFieldsFrom(i) ==
    IF i > Len(HeaderFields) THEN <<>>
    ELSE IF TagOf(HeaderFields[i]) # VERSION /\ IsFirst(i)
    THEN <<[tag |-> TagOf(HeaderFields[i]), value |-> ValueOf(HeaderFields[LastOf(i)])]>>
            \o OtherFieldsFrom(i + 1)
    ELSE OtherFieldsFrom(i + 1)

HoldsVersion ==
    \E i \in 1..Len(HeaderFields) :
        /\ TagOf(HeaderFields[i]) = VERSION /\ LastOf(i) = i
        /\ hmap.version = <<VersionOf(ValueOf(HeaderFields[i]))>>

HeaderParsed == hmap # NoMap
Fails(error) == hmap.state = "Err" /\ hmap.error = error

\* C23 as stated: MissingVersion whenever all fields parse and none has the
\* VN tag; on success src is empty and the map holds the version and every
\* other field.
C23_MissingVersionWheneverNoVN ==
    /\ (HeaderParsed /\ AllFieldsParse /\ NoVersionField) => Fails("MissingVersion")
    /\ hmap.state = "Ok" =>
            /\ hsrc = <<>>
            /\ HoldsVersion
            /\ \A i \in 1..Len(HeaderFields) :
                    TagOf(HeaderFields[i]) # VERSION =>
                        \E k \in 1..Len(hmap.other_fields) :
                            hmap.other_fields[k] = [tag |-> TagOf(HeaderFields[i]),
                                                    value |-> ValueOf(HeaderFields[i])]

\* C23, amended: when all fields parse, a tag that occurs twice gives
\* DuplicateTag unless the context allows duplicate tags; otherwise a record
\* with no VN field gives MissingVersion. On success src is empty and the map
\* holds the parsed version and the other fields in the order of the record,
\* the last value of a tag standing in for the earlier ones.
C23_ParseHeader ==
    /\ (HeaderParsed /\ AllFieldsParse /\ TagRepeats /\ ~ctx.allow_duplicate_tags)
            => Fails("DuplicateTag")
    /\ (HeaderParsed /\ AllFieldsParse /\ NoVersionField
            /\ (~TagRepeats \/ ctx.allow_duplicate_tags)) => Fails("MissingVersion")
    /\ hmap.state = "Ok" =>
            /\ hsrc = <<>>
            /\ AllFieldsParse
            /\ HoldsVersion
            /\ hmap.other_fields = OtherFieldsFrom(1)

C23_Witness ==
    /\ hbytes = <<TAB, "S", "O", ":", "c", TAB, "G", "O", ":", "q">>
    /\ ~ctx.allow_duplicate_tags
    /\ Fails("MissingVersion")

----
\* Properties of the reader of a VCF record.

RecordRead == vresult # NotCalled
Line == bytes_of(vstream)

\* The number of tabs among the first n bytes of the line.
RECURSIVE TabsBefore(_)
TabsBefore(n) == IF n = 0 THEN 0 ELSE TabsBefore(n - 1) + (IF Line[n] = TAB THEN 1 ELSE 0)

\* A line feed comes before the eighth field has started.
ShortLine ==
    \E i \in 1..Len(Line) :
        /\ Line[i] = LINE_FEED /\ \A j \in 1..(i - 1) : Line[j] # LINE_FEED
        /\ TabsBefore(i) < REQUIRED_FIELDS - 1

\* A chunk of the reader ends between the two bytes of a character.
SplitsCharacter == \E k \in 1..Len(vstream) : ends_with(vstream[k], LEAD)

\* C24: read_record fails with an error of kind InvalidData whenever the
\* line feed of the line comes before its eighth field has started; the
\* error is "unexpected EOL" unless a chunk that ends inside a character
\* failed first, which is InvalidData as well.
C24_UnexpectedEol ==
    (RecordRead /\ ShortLine) =>
        /\ vresult.state = "Err" /\ vresult.kind = "InvalidData"
        /\ ~SplitsCharacter => vresult.message = "unexpected EOL"

C24_Witness ==
    /\ vstream = << <<".", TAB>>, <<".", LINE_FEED>> >>
    /\ vresult.state = "Err" /\ vresult.kind = "InvalidData"
    /\ vresult.message = "unexpected EOL"
    /\ vrecord.buf = <<".", ".">>

\* The line without its CR LF or LF, when it has one and holds eight fields.
Content ==
    IF ends_with(pop(Line), CARRIAGE_RETURN) THEN pop(pop(Line)) ELSE pop(Line)
EightFields ==
    /\ ends_with(Line, LINE_FEED)
    /\ \A i \in 1..Len(Content) : Content[i] # LINE_FEED
    /\ Len(TabSplit(Content, <<>>)) = REQUIRED_FIELDS

RECURSIVE EndsOf(_, _)
EndsOf(fs, before) ==
    IF fs = <<>> THEN <<>>
    ELSE <<before + Len(Head(fs))>> \o EndsOf(Tail(fs), before + Len(Head(fs)))

\* C25: for a line of eight fields that ends with CR LF or with LF, however
\* the reader splits it, read_record leaves the eight fields without the
\* tabs in the buffer and the length of the buffer after each field in the
\* bounds, so that the two endings give the same record.
C25_SameForCrLfAndLf ==
    (RecordRead /\ EightFields) =>
        /\ vresult.state = "Ok"
        /\ vrecord.buf = concat(TabSplit(Content, <<>>))
        /\ vrecord.bounds = EndsOf(TabSplit(Content, <<>>), 0)

====
